---------------------------- MODULE Spec2Model ----------------------------
(***************************************************************************)
(* circle-city-maps: the pipeline of CityMap.load (buildings, adjacency,   *)
(* colouring, other features), the polygon stitcher and the relation       *)
(* extractor of the Overpass interface.                                    *)
(*                                                                         *)
(* Conventions.  A Python None is the empty tuple and a present value v    *)
(* the one-element tuple <<v>>.  Coordinates are integers on a grid;       *)
(* a feature's center holds TWICE the midpoint of its bounding box, so     *)
(* that the halves of (min + max) / 2 stay integral: every comparison of   *)
(* centers below is scaled accordingly.  Arithmetic is exact (no float     *)
(* rounding).  Objects (buildings) are identified by their position in     *)
(* the list that owns them.                                                *)
(***************************************************************************)
EXTENDS Integers, Sequences, FiniteSets, TLC

VARIABLES
    pc,              \* position of the run inside CityMap.load
    radius,          \* load's radius argument
    random_fill,     \* load's random_fill argument
    osm,             \* what the OSM collaborator answers: city, buildings, roads, ...
    city,            \* CityMap._city
    buildings,       \* CityMap._buildings: list of MapBuilding
    buildings_bbox,  \* CityMap._buildings_bbox
    x,               \* _assignNeighbors: index of the building being processed
    pass,            \* how many times _assignNeighbors was started
    first_neighbors, \* neighbor sets left by the first pass
    percent,         \* _assignNeighbors: percent, counted in increments of 0.1
    progress,        \* _assignNeighbors: the progress lines logged by this call
    retry,           \* _assignColors: attempts started (x of range(max_retries))
    pos,             \* _assignColors: position in the inner loop over buildings
    visits,          \* _assignColors: visits of each building in this attempt
    fails,           \* _assignColors: fails of the running attempt
    best_fails,      \* _assignColors: best_fails
    best_buildings,  \* _assignColors: best_buildings
    history,         \* fails of each attempt that ended, in order
    roads, parks, water, \* CityMap._roads, _parks, _water
    loaded_nodes,    \* load's return value
    raised,          \* the exception that ended the run, if any
    ways,            \* stitcher: the list of ways given to _buildPolygons
    polygons,        \* stitcher: the list _buildPolygons returned
    size,            \* draw: its width and height arguments
    drawn,           \* draw: the calls made on the images so far
    response,        \* extractor: the Overpass response
    features,        \* extractor: what _queryRelationFeature returned
    cache,           \* ApiInterface: the file of each URL in the cache folder
    procs            \* ApiInterface: the runs calling makeRequest

loadVars == <<pc, radius, random_fill, osm, city, buildings, buildings_bbox,
              roads, parks, water, loaded_nodes, raised>>
neighborVars == <<x, pass, first_neighbors, percent, progress>>
colorVars == <<retry, pos, visits, fails, best_fails, best_buildings, history>>
stitchVars == <<ways, polygons>>
extractVars == <<response, features>>
drawVars == <<size, drawn>>
apiVars == <<cache, procs>>
vars == <<loadVars, neighborVars, colorVars, stitchVars, extractVars, drawVars, apiVars>>

---------------------------------------------------------------------------
(* Python values *)

None == <<>>
Some(v) == <<v>>
IsNone(o) == o = <<>>
Val(o) == o[1]

Abs(n) == IF n < 0 THEN -n ELSE n
Range(s) == {s[k] : k \in DOMAIN s}
SetMin(S) == CHOOSE m \in S : \A n \in S : m <= n
SetMax(S) == CHOOSE m \in S : \A n \in S : m >= n

RECURSIVE SumSeq(_)
SumSeq(s) == IF s = <<>> THEN 0 ELSE Head(s) + SumSeq(Tail(s))

Reverse(s) == [k \in 1..Len(s) |-> s[Len(s) + 1 - k]]

---------------------------------------------------------------------------
(* Bounds and program constants *)

GridW == 4          \* nodes lie on a GridW x GridW grid
MaxBuildings == 3   \* buildings per list in the adjacency specification
MaxRetries == 2     \* stands for max_retries (100 in the code)
MaxRing == 4        \* nodes of the ring given to the stitcher in fragments
MaxProgress == 12   \* buildings in the lists that show the progress lines
MaxMembers == 2     \* members of a relation in the extractor's responses
MaxDist == 50       \* max_dist of _assignNeighbors
DefaultRadius == 1000  \* load's default radius
DefaultSide == 1000    \* draw's default width and height
PaletteLength == 4  \* StyleFactory.palette_length: Style demands at least 4 fills
MaxChunks == 2         \* write calls one cache entry takes at most
DefaultMaxRetries == 3 \* makeRequest's default max_retries

\* load's radius argument: the default, and one small enough for the candidate
\* filter's delta to exceed the distance between the centers of two cells
Radii == {25, DefaultRadius}

\* the width and height given to draw
Sizes == {<<DefaultSide, DefaultSide>>, <<3, 2>>}

\* the URLs requested, the runs, the max_retries arguments and the queries of
\* load that end in makeRequest
Urls == {"nominatim", "overpass"}
Procs == {1, 2}
RetryBudgets == {0, 1, DefaultMaxRetries}
Callers == {"getCity", "getBuildings"}

---------------------------------------------------------------------------
(* Nodes: Node(lat, lon, node_id).  A node is its node_id (Node.__eq__ and  *)
(* Node.__hash__ use node_id alone); its coordinates follow from it.        *)

lat(n) == (n - 1) \div GridW
lon(n) == (n - 1) % GridW

\* the bounding box OverpassElement.__post__init__ and Way.__post__init__ compute
BoundingBox(nodes) ==
    << SetMin({lat(n) : n \in Range(nodes)}), SetMin({lon(n) : n \in Range(nodes)}),
       SetMax({lat(n) : n \in Range(nodes)}), SetMax({lon(n) : n \in Range(nodes)}) >>

\* twice the center OverpassElement.__post__init__ computes
Center(bb) == << bb[1] + bb[3], bb[2] + bb[4] >>

\* OverpassElement(nodes=..., inner_nodes=..., element_id=...) with nodes non-empty
OverpassElement(nodes, inner_nodes, element_id) ==
    [ nodes |-> nodes,
      inner_nodes |-> inner_nodes,
      boundingbox |-> BoundingBox(nodes),
      center |-> Center(BoundingBox(nodes)),
      element_id |-> element_id ]

\* a constructor that recomputes the bounding box from the first node only
MapBuildingMutant(b) ==
    [ nodes |-> b.nodes,
      inner_nodes |-> b.inner_nodes,
      boundingbox |-> <<b.boundingbox[1], b.boundingbox[2], b.boundingbox[1], b.boundingbox[2]>>,
      center |-> b.center,
      neighbors |-> None,
      color_id |-> None,
      outline_color_id |-> None ]

\* MapBuilding(nodes=, inner_nodes=, boundingbox=, center=): the other fields None
MapBuilding(b) ==
    [ nodes |-> b.nodes,
      inner_nodes |-> b.inner_nodes,
      boundingbox |-> b.boundingbox,
      center |-> b.center,
      neighbors |-> None,
      color_id |-> None,
      outline_color_id |-> None ]

---------------------------------------------------------------------------
(* Building footprints: closed ways around cells of the node grid *)

Cell(r, c) ==
    LET s == GridW * r + c + 1
    IN  << s, s + 1, s + GridW + 1, s + GridW, s >>

FootSW == Cell(0, 0)
FootS == Cell(0, 1)
FootW == Cell(1, 0)
FootC == Cell(1, 1)
FootE == Cell(1, 2)
FootN == Cell(2, 1)
\* a triangle on three of the four corners of FootC: the same bounding box
FootT == << FootC[1], FootC[2], FootC[3], FootC[1] >>

Catalogue == {FootSW, FootS, FootW, FootC, FootT}

Building(nodes) == OverpassElement(nodes, <<>>, nodes[1])

---------------------------------------------------------------------------
(* MapBuilding: equality, hash, borders *)

NodeIds(nodes) == Range(nodes)

\* MapBuilding.__eq__(self, other): every node of self is among other's nodes
MapBuilding_eq(self, other) ==
    \A k \in DOMAIN self.nodes : \E j \in DOMAIN other.nodes : other.nodes[j] = self.nodes[k]

\* MapBuilding.__hash__: hash(self.center); equal hashes are equal centers
MapBuilding_hash(self) == self.center

\* MapBuilding.borders(self, other)
borders(self, other) ==
    IF \/ self.boundingbox[1] > other.boundingbox[3]
       \/ self.boundingbox[3] < other.boundingbox[1]
       \/ self.boundingbox[2] > other.boundingbox[4]
       \/ self.boundingbox[4] < other.boundingbox[2]
    THEN FALSE
    ELSE Cardinality(NodeIds(self.nodes) \cap NodeIds(other.nodes)) >= 2

\* abs(building.center[0] - other.center[0]) < d_lat and the same for lon, with
\* d = (bbox side) / (2 * radius) * max_dist; centers are doubled, radius > 0
WithinDelta(building, other, bbox, r) ==
    /\ Abs(building.center[1] - other.center[1]) * r < (bbox[3] - bbox[1]) * MaxDist
    /\ Abs(building.center[2] - other.center[2]) * r < (bbox[4] - bbox[2]) * MaxDist

\* the list "others" of _assignNeighbors for the building at position k, as
\* positions in list order; building != other is not (building == other)
Others(bs, k, bbox, r) ==
    LET Keep(j) == WithinDelta(bs[k], bs[j], bbox, r) /\ ~MapBuilding_eq(bs[k], bs[j])
    IN  SelectSeq([j \in 1..Len(bs) |-> j], Keep)

\* A Python set filled by adding bs[seq[1]], bs[seq[2]], ... in this order: an
\* object is not added when the set holds it already, or holds an object of the
\* same hash that __eq__ finds equal to it (stored == new).
RECURSIVE PySet(_, _, _)
PySet(bs, seq, acc) ==
    IF seq = <<>> THEN acc
    ELSE LET j == Head(seq)
             present == \E m \in acc :
                            \/ m = j
                            \/ /\ MapBuilding_hash(bs[m]) = MapBuilding_hash(bs[j])
                               /\ MapBuilding_eq(bs[m], bs[j])
         IN  PySet(bs, Tail(seq), IF present THEN acc ELSE acc \cup {j})

\* {other for other in others if building.borders(other)}
NeighborsOf(bs, k, bbox, r) ==
    LET Bordering(j) == borders(bs[k], bs[j])
    IN  PySet(bs, SelectSeq(Others(bs, k, bbox, r), Bordering), {})

\* the bounding box load computes over all buildings (a non-empty list)
BuildingsBbox(bs) ==
    << SetMin({bs[k].boundingbox[1] : k \in DOMAIN bs}),
       SetMin({bs[k].boundingbox[2] : k \in DOMAIN bs}),
       SetMax({bs[k].boundingbox[3] : k \in DOMAIN bs}),
       SetMax({bs[k].boundingbox[4] : k \in DOMAIN bs}) >>

---------------------------------------------------------------------------
(* _assignNeighbors, one iteration of its loop per step *)

\* a progress test without the increment: new_percent >= percent
ReportChoicesMutant(i, n, p) == IF 10 * i >= p * n THEN {TRUE} ELSE {FALSE}

\* new_percent >= percent + increment, for new_percent = i / n and percent =
\* p * 0.1: the outcomes of the comparison.  The floats decide a tie either
\* way (0.1 + 0.1 + 0.1 > 3 / 10, while 0 + 0.1 = 1 / 10).
ReportChoices(i, n, p) ==
    IF 10 * i > (p + 1) * n THEN {TRUE}
    ELSE IF 10 * i = (p + 1) * n THEN {TRUE, FALSE}
    ELSE {FALSE}

\* new_percent * 100 as :.2f prints it, in hundredths: rounded to the nearest;
\* the float product decides an exact half either way
Hundredths(i, n) ==
    LET q == (10000 * i) \div n
        r == 2 * ((10000 * i) % n)
    IN  IF r > n THEN {q + 1} ELSE IF r = n THEN {q, q + 1} ELSE {q}

\* the progress lines possible for new_percent = i / n: the percentage, and the
\* remaining time elapsed * (1 - new_percent) / new_percent as the pair
\* <<n - i, i>> of the ratio that multiplies elapsed
ProgressLines(i, n) ==
    {[percent |-> h, remaining |-> <<n - i, i>>] : h \in Hundredths(i, n)}

AssignNeighbors ==
    /\ pc = "neighbors"
    /\ x < Len(buildings)
    /\ buildings' = [buildings EXCEPT ![x + 1].neighbors =
                         Some(NeighborsOf(buildings, x + 1, buildings_bbox, radius))]
    /\ \E report \in ReportChoices(x, Len(buildings), percent) :
          IF ~report
          THEN x' = x + 1 /\ UNCHANGED <<pc, raised, percent, progress>>
          ELSE IF x = 0
               THEN /\ raised' = Some("ZeroDivisionError")
                    /\ pc' = "raised"
                    /\ UNCHANGED <<x, percent, progress>>
               ELSE /\ \E line \in ProgressLines(x, Len(buildings)) :
                         progress' = Append(progress, line)
                    /\ percent' = percent + 1
                    /\ x' = x + 1
                    /\ UNCHANGED <<pc, raised>>
    /\ UNCHANGED <<radius, random_fill, osm, city, buildings_bbox,
                   roads, parks, water, loaded_nodes>>
    /\ UNCHANGED <<pass, first_neighbors>>
    /\ UNCHANGED <<colorVars, stitchVars, extractVars>>
    /\ UNCHANGED <<drawVars, apiVars>>

\* the loop is over: the summary divides by len(self._buildings)
AssignNeighborsReturn ==
    /\ pc = "neighbors"
    /\ x = Len(buildings)
    /\ IF Len(buildings) = 0
       THEN pc' = "raised" /\ raised' = Some("ZeroDivisionError")
       ELSE pc' = "neighbors_done" /\ UNCHANGED raised
    /\ UNCHANGED <<radius, random_fill, osm, city, buildings, buildings_bbox,
                   roads, parks, water, loaded_nodes>>
    /\ UNCHANGED <<neighborVars, colorVars, stitchVars, extractVars>>
    /\ UNCHANGED <<drawVars, apiVars>>

\* _assignNeighbors called once more on the same buildings
AssignNeighborsAgain ==
    /\ pc = "neighbors_done"
    /\ pass = 1
    /\ first_neighbors' = [k \in DOMAIN buildings |-> buildings[k].neighbors]
    /\ pass' = 2
    /\ x' = 0
    /\ percent' = 0
    /\ progress' = <<>>
    /\ pc' = "neighbors"
    /\ UNCHANGED <<radius, random_fill, osm, city, buildings, buildings_bbox,
                   roads, parks, water, loaded_nodes, raised>>
    /\ UNCHANGED <<colorVars, stitchVars, extractVars>>
    /\ UNCHANGED <<drawVars, apiVars>>

---------------------------------------------------------------------------
(* CityMap.load up to the buildings *)

\* self._city = self._osm.getCity(...): Nominatim.findCity raises ValueError
\* when the search returns nothing
\* a lookup that returns None for an unknown city instead of raising
findCityMutant(data) == [raised |-> None, city |-> None]

\* Nominatim.findCity on the search result data (TRUE: a non-empty list)
findCity(data) ==
    IF ~data THEN [raised |-> Some("ValueError"), city |-> None]
    ELSE [raised |-> None, city |-> Some("city")]

GetCity ==
    /\ pc = "load"
    /\ LET found == findCity(osm.city_found)
       IN  IF IsNone(found.raised)
           THEN city' = found.city /\ pc' = "buildings" /\ UNCHANGED raised
           ELSE raised' = found.raised /\ pc' = "raised" /\ UNCHANGED city
    /\ UNCHANGED <<radius, random_fill, osm, buildings, buildings_bbox,
                   roads, parks, water, loaded_nodes>>
    /\ UNCHANGED <<neighborVars, colorVars, stitchVars, extractVars>>
    /\ UNCHANGED <<drawVars, apiVars>>

\* getBuildings, the MapBuilding list and the bounding box: min() and max() of
\* an empty list raise ValueError, after self._buildings was assigned
GetBuildings ==
    /\ pc = "buildings"
    /\ buildings' = [k \in DOMAIN osm.buildings |-> MapBuilding(osm.buildings[k])]
    /\ IF osm.buildings = <<>>
       THEN /\ raised' = Some("ValueError")
            /\ pc' = "raised"
            /\ UNCHANGED <<buildings_bbox, x, pass>>
       ELSE /\ buildings_bbox' = BuildingsBbox(osm.buildings)
            /\ pc' = IF random_fill THEN "features" ELSE "neighbors"
            /\ x' = 0
            /\ pass' = IF random_fill THEN pass ELSE 1
            /\ UNCHANGED raised
    /\ UNCHANGED <<radius, random_fill, osm, city, roads, parks, water, loaded_nodes>>
    /\ UNCHANGED <<first_neighbors, percent, progress, colorVars, stitchVars, extractVars>>
    /\ UNCHANGED <<drawVars, apiVars>>

---------------------------------------------------------------------------
(* _pickBuildingsColors and _assignColors *)

\* a loop that runs one attempt too many
AttemptsLeftMutant(r) == r <= MaxRetries

\* range(max_retries): whether an attempt may start after r attempts
AttemptsLeft(r) == r < MaxRetries

\* best_fails starting at 0: no attempt is ever better
InitialBestFailsMutant(bs) == 0

\* best_fails before the first attempt
InitialBestFails(bs) == Len(bs)

\* Data.copy is not defined in the sources: a snapshot of the object's fields
copy(building) == building

\* whether an attempt with these fails replaces the snapshot
Better(f, best) == f < best

\* a loop without its break
BreakMutant(f) == FALSE

\* if fails == 0: break
Break(f) == f = 0

\* a palette from which no neighbor's color is removed
AvailableColorsMutant(bs, k) == 0..(PaletteLength - 1)

\* available_colors_ids of the building at position k: the palette without
\* the color_id of every neighbor that has one
AvailableColors(bs, k) ==
    (0..(PaletteLength - 1))
        \ {Val(bs[n].color_id) : n \in {m \in Val(bs[k].neighbors) : ~IsNone(bs[m].color_id)}}

\* _pickBuildingsColors up to the call of _assignColors, which gets
\* self._buildings (the sorted list is not the one passed), and the first lines
\* of _assignColors
\* a check that never finds an unset neighbor set
AnyNeighborsUnsetMutant(bs) == FALSE

\* any(building.neighbors is None for building in self._buildings)
AnyNeighborsUnset(bs) == \E k \in DOMAIN bs : IsNone(bs[k].neighbors)

PickBuildingsColors ==
    /\ pc = "neighbors_done"
    /\ IF AnyNeighborsUnset(buildings)
       THEN pc' = "features" /\ UNCHANGED <<best_fails, best_buildings, retry>>
       ELSE /\ pc' = "colors"
            /\ best_fails' = InitialBestFails(buildings)
            /\ best_buildings' = <<>>
            /\ retry' = 0
    /\ UNCHANGED <<radius, random_fill, osm, city, buildings, buildings_bbox,
                   roads, parks, water, loaded_nodes, raised>>
    /\ UNCHANGED <<pos, visits, fails, history>>
    /\ UNCHANGED <<neighborVars, stitchVars, extractVars>>
    /\ UNCHANGED <<drawVars, apiVars>>

\* the head of an attempt: fails = 0 and every color reset
StartAttempt ==
    /\ pc = "colors"
    /\ AttemptsLeft(retry)
    /\ retry' = retry + 1
    /\ fails' = 0
    /\ buildings' = [k \in DOMAIN buildings |->
                        [buildings[k] EXCEPT !.color_id = None, !.outline_color_id = None]]
    /\ pos' = 1
    /\ visits' = [k \in DOMAIN buildings |-> 0]
    /\ pc' = "attempt"
    /\ UNCHANGED <<radius, random_fill, osm, city, buildings_bbox,
                   roads, parks, water, loaded_nodes, raised>>
    /\ UNCHANGED <<best_fails, best_buildings, history>>
    /\ UNCHANGED <<neighborVars, stitchVars, extractVars>>
    /\ UNCHANGED <<drawVars, apiVars>>

\* one iteration of the inner loop: the building at position pos
ColorBuilding ==
    /\ pc = "attempt"
    /\ pos <= Len(buildings)
    /\ IF AvailableColors(buildings, pos) = {}
       THEN fails' = fails + 1 /\ UNCHANGED buildings
       ELSE /\ \E c \in AvailableColors(buildings, pos) :
                 buildings' = [buildings EXCEPT ![pos].color_id = Some(c),
                                                ![pos].outline_color_id = Some(c)]
            /\ UNCHANGED fails
    /\ visits' = [visits EXCEPT ![pos] = @ + 1]
    /\ pos' = pos + 1
    /\ UNCHANGED <<pc, radius, random_fill, osm, city, buildings_bbox,
                   roads, parks, water, loaded_nodes, raised>>
    /\ UNCHANGED <<retry, best_fails, best_buildings, history>>
    /\ UNCHANGED <<neighborVars, stitchVars, extractVars>>
    /\ UNCHANGED <<drawVars, apiVars>>

\* the end of an attempt: the snapshot when it is better, the break on 0 fails
EndAttempt ==
    /\ pc = "attempt"
    /\ pos = Len(buildings) + 1
    /\ IF Better(fails, best_fails)
       THEN /\ best_fails' = fails
            /\ best_buildings' = [k \in DOMAIN buildings |-> copy(buildings[k])]
       ELSE UNCHANGED <<best_fails, best_buildings>>
    /\ history' = Append(history, fails)
    /\ pc' = IF Break(fails) THEN "colors_return" ELSE "colors"
    /\ UNCHANGED <<radius, random_fill, osm, city, buildings, buildings_bbox,
                   roads, parks, water, loaded_nodes, raised>>
    /\ UNCHANGED <<retry, pos, visits, fails>>
    /\ UNCHANGED <<neighborVars, stitchVars, extractVars>>
    /\ UNCHANGED <<drawVars, apiVars>>

\* return best_fails, best_buildings; the caller stores the list in self._buildings
ReturnColors ==
    /\ \/ pc = "colors_return"
       \/ pc = "colors" /\ ~AttemptsLeft(retry)
    /\ buildings' = best_buildings
    /\ pc' = "colors_done"
    /\ UNCHANGED <<radius, random_fill, osm, city, buildings_bbox,
                   roads, parks, water, loaded_nodes, raised>>
    /\ UNCHANGED <<retry, pos, visits, fails, best_fails, best_buildings, history>>
    /\ UNCHANGED <<neighborVars, stitchVars, extractVars>>
    /\ UNCHANGED <<drawVars, apiVars>>

---------------------------------------------------------------------------
(* The rest of load: roads, parks, water and the count of loaded nodes *)

NodeCount(fs) == SumSeq([k \in DOMAIN fs |-> Len(fs[k].nodes)])

GetFeatures ==
    /\ pc \in {"features", "colors_done"}
    /\ roads' = Some(osm.roads)
    /\ parks' = Some(osm.parks)
    /\ water' = Some(osm.water)
    /\ loaded_nodes' = Some(NodeCount(buildings) + NodeCount(osm.roads)
                                + NodeCount(osm.parks) + NodeCount(osm.water))
    /\ pc' = "loaded"
    /\ UNCHANGED <<radius, random_fill, osm, city, buildings, buildings_bbox, raised>>
    /\ UNCHANGED <<neighborVars, colorVars, stitchVars, extractVars>>
    /\ UNCHANGED <<drawVars, apiVars>>

---------------------------------------------------------------------------
(* _normalizeCoordinate, _drawElements, _drawBuildings and draw *)

\* a normalizer that keeps every node
InsideMutant(n, bbox) == TRUE

\* not (x < 0 or x > 1 or y < 0 or y > 1), for x and y the position of node n
\* relative to a bounding box of positive extent
Inside(n, bbox) ==
    /\ lon(n) >= bbox[2] /\ lon(n) <= bbox[4]
    /\ lat(n) >= bbox[1] /\ lat(n) <= bbox[3]

\* (int(x * width), int(y * height))
Pixel(n, bbox, width, height) ==
    << ((lon(n) - bbox[2]) * width) \div (bbox[4] - bbox[2]),
       ((lat(n) - bbox[1]) * height) \div (bbox[3] - bbox[1]) >>

\* the divisions of _normalizeCoordinate divide by zero
Degenerate(bbox) == bbox[4] = bbox[2] \/ bbox[3] = bbox[1]

\* _normalizeCoordinate: the pixels of the nodes kept, or the exception of the
\* first node's division
NormalizeCoordinate(nodes, bbox, width, height) ==
    IF nodes # <<>> /\ Degenerate(bbox)
    THEN [raised |-> Some("ZeroDivisionError"), points |-> <<>>]
    ELSE LET In(n) == Inside(n, bbox)
             kept == SelectSeq(nodes, In)
         IN  [raised |-> None,
              points |-> [k \in DOMAIN kept |-> Pixel(kept[k], bbox, width, height)]]

\* a test that lets two points through
SkippedMutant(points) == Len(points) < 2

\* if len(normalized_nodes) < 3: continue
Skipped(points) == Len(points) < 3

\* the rings a drawing method goes through: the outer ring of every element,
\* then the inner rings of every element
OuterRings(es) == [k \in DOMAIN es |-> [nodes |-> es[k].nodes, inner |-> FALSE, of |-> k]]

RECURSIVE InnerRingsFrom(_, _)
InnerRingsFrom(es, k) ==
    IF k > Len(es) THEN <<>>
    ELSE [j \in DOMAIN es[k].inner_nodes |->
             [nodes |-> es[k].inner_nodes[j], inner |-> TRUE, of |-> k]]
         \o InnerRingsFrom(es, k + 1)

Rings(es) == OuterRings(es) \o InnerRingsFrom(es, 1)

\* the rings of rs that are drawn, in order, with their pixels
DrawnRings(rs, bbox, width, height) ==
    LET Norm(k) == NormalizeCoordinate(rs[k].nodes, bbox, width, height).points
        Kept(k) == ~Skipped(Norm(k))
        idx == SelectSeq([k \in DOMAIN rs |-> k], Kept)
    IN  [j \in DOMAIN idx |-> [ring |-> rs[idx[j]], points |-> Norm(idx[j])]]

\* whether normalizing some ring of rs raises
RingsRaise(rs, bbox) == \E k \in DOMAIN rs : rs[k].nodes # <<>> /\ Degenerate(bbox)

\* _drawElements: the calls made on the image, or the exception
DrawElements(element, bbox, width, height, color, line) ==
    IF RingsRaise(Rings(element), bbox)
    THEN [raised |-> Some("ZeroDivisionError"), calls |-> <<>>]
    ELSE LET d == DrawnRings(Rings(element), bbox, width, height)
         IN  [raised |-> None,
              calls |-> [j \in DOMAIN d |->
                  IF d[j].ring.inner
                  THEN [function |-> "polygon", points |-> d[j].points,
                        fill |-> <<"background_color">>, outline |-> None]
                  ELSE [function |-> IF line THEN "line" ELSE "polygon",
                        points |-> d[j].points,
                        fill |-> <<color>>, outline |-> None]]]

\* the buildings of bs without a color
Uncolored(bs) == {k \in DOMAIN bs : IsNone(bs[k].color_id)}

\* a fallback index one past the palette
FallbackIndicesMutant == 0..PaletteLength

\* random.randint(0, palette_length - 1)
FallbackIndices == 0..(PaletteLength - 1)

\* self._style.buildings_fill[i] and buildings_outline[i]: the lists hold
\* PaletteLength colors each
PaletteIndexError(i) == i >= PaletteLength

\* the fill and outline indices of the building at position k of bs, index[k]
\* the number random.randint returns for it when it has no color
BuildingIndices(bs, k, index) ==
    IF IsNone(bs[k].color_id) THEN [fill |-> index[k], outline |-> index[k]]
    ELSE [fill |-> Val(bs[k].color_id), outline |-> Val(bs[k].outline_color_id)]

\* _drawBuildings, index the numbers random.randint returns
DrawBuildingsOf(bs, bbox, width, height, index) ==
    LET d == DrawnRings(Rings(bs), bbox, width, height)
        Ix(j) == BuildingIndices(bs, d[j].ring.of, index)
    IN  IF RingsRaise(Rings(bs), bbox)
        THEN [raised |-> Some("ZeroDivisionError"), calls |-> <<>>]
        ELSE IF \E j \in DOMAIN d : /\ ~d[j].ring.inner
                                      /\ \/ PaletteIndexError(Ix(j).fill)
                                         \/ PaletteIndexError(Ix(j).outline)
        THEN [raised |-> Some("IndexError"), calls |-> <<>>]
        ELSE [raised |-> None,
              calls |-> [j \in DOMAIN d |->
                  IF d[j].ring.inner
                  THEN [function |-> "polygon", points |-> d[j].points,
                        fill |-> <<"background_color">>, outline |-> None]
                  ELSE [function |-> "polygon", points |-> d[j].points,
                        fill |-> <<"buildings_fill", Ix(j).fill>>,
                        outline |-> Some(<<"buildings_outline", Ix(j).outline>>)]]]

\* the calls of one layer, tagged with the layer
Layer(name, calls) == [j \in DOMAIN calls |-> [layer |-> name, call |-> calls[j]]]

\* one drawing step of draw: the layer is appended to the calls made, or the
\* exception leaves draw
DrawStep(name, result, next) ==
    /\ IF IsNone(result.raised)
       THEN /\ drawn' = drawn \o Layer(name, result.calls)
            /\ pc' = next
            /\ UNCHANGED raised
       ELSE /\ raised' = result.raised
            /\ pc' = "raised"
            /\ UNCHANGED drawn
    /\ UNCHANGED <<radius, random_fill, osm, city, buildings, buildings_bbox,
                   roads, parks, water, loaded_nodes>>
    /\ UNCHANGED <<neighborVars, colorVars, stitchVars, extractVars, apiVars>>

\* draw(width, height) on a loaded map, up to the parks
DrawParks ==
    /\ pc = "loaded"
    /\ size' \in Sizes
    /\ DrawStep("parks",
                DrawElements(Val(parks), buildings_bbox, size'[1], size'[2],
                             "parks_color", FALSE),
                "draw_water")

DrawWater ==
    /\ pc = "draw_water"
    /\ DrawStep("water",
                DrawElements(Val(water), buildings_bbox, size[1], size[2],
                             "water_color", FALSE),
                "draw_roads")
    /\ UNCHANGED size

DrawRoads ==
    /\ pc = "draw_roads"
    /\ DrawStep("roads",
                DrawElements(Val(roads), buildings_bbox, size[1], size[2],
                             "roads_color", TRUE),
                "draw_buildings")
    /\ UNCHANGED size

DrawBuildings ==
    /\ pc = "draw_buildings"
    /\ \E index \in [Uncolored(buildings) -> FallbackIndices] :
          DrawStep("buildings",
                   DrawBuildingsOf(buildings, buildings_bbox, size[1], size[2], index),
                   "create_image")
    /\ UNCHANGED size

\* _createImage and _saveImage: the layers are composed and saved
CreateImage ==
    /\ pc = "create_image"
    /\ pc' = "drawn"
    /\ UNCHANGED <<radius, random_fill, osm, city, buildings, buildings_bbox,
                   roads, parks, water, loaded_nodes, raised>>
    /\ UNCHANGED <<neighborVars, colorVars, stitchVars, extractVars, drawVars, apiVars>>

---------------------------------------------------------------------------
(* The polygon stitcher: Overpass._combinePolygons and _buildPolygons *)

\* Way(way_id=, nodes=, boundingbox=): the role is None until a relation sets it
Way(way_id, nodes) ==
    [way_id |-> way_id, nodes |-> nodes,
     boundingbox |-> IF nodes = <<>> THEN <<0, 0, 0, 0>> ELSE BoundingBox(nodes),
     role |-> None]

\* _combinePolygons without its fourth case
CombinePolygonsMutant(p1, p2) ==
    IF p1[1] = p2[1] THEN Some(Reverse(p2) \o p1)
    ELSE IF p1[1] = p2[Len(p2)] THEN Some(p2 \o p1)
    ELSE IF p1[Len(p1)] = p2[1] THEN Some(p1 \o p2)
    ELSE None

\* _combinePolygons prepending the new way unreversed in its first case
CombinePolygonsForwardMutant(p1, p2) ==
    IF p1[1] = p2[1] THEN Some(p2 \o p1)
    ELSE IF p1[1] = p2[Len(p2)] THEN Some(p2 \o p1)
    ELSE IF p1[Len(p1)] = p2[1] THEN Some(p1 \o p2)
    ELSE IF p1[Len(p1)] = p2[Len(p2)] THEN Some(p1 \o Reverse(p2))
    ELSE None

\* _combinePolygons(p1, p2), both non-empty: the four cases in the code's
\* order, None when no ends match
CombinePolygons(p1, p2) ==
    IF p1[1] = p2[1] THEN Some(Reverse(p2) \o p1)
    ELSE IF p1[1] = p2[Len(p2)] THEN Some(p2 \o p1)
    ELSE IF p1[Len(p1)] = p2[1] THEN Some(p1 \o p2)
    ELSE IF p1[Len(p1)] = p2[Len(p2)] THEN Some(p1 \o Reverse(p2))
    ELSE None

\* the loop of _buildPolygons over the ways ws, from the accumulator
\* new_polygon and the list polys, and the flush after it
RECURSIVE BuildFrom(_, _, _)
BuildFrom(ws, new_polygon, polys) ==
    IF ws = <<>>
    THEN IF new_polygon # <<>> THEN Append(polys, new_polygon) ELSE polys
    ELSE IF new_polygon = <<>>
         THEN BuildFrom(Tail(ws), Head(ws).nodes, polys)
         ELSE LET combined == CombinePolygons(new_polygon, Head(ws).nodes)
              IN  IF ~IsNone(combined) /\ Val(combined) # <<>>
                  THEN BuildFrom(Tail(ws), Val(combined), polys)
                  ELSE BuildFrom(Tail(ws), Head(ws).nodes, Append(polys, new_polygon))

\* a stitcher whose last flush is unconditional
BuildPolygonsMutant(ws) ==
    IF ws = <<>> THEN << <<>> >> ELSE BuildFrom(ws, <<>>, <<>>)

BuildPolygons(ws) == BuildFrom(ws, <<>>, <<>>)

Stitch ==
    /\ IsNone(polygons)
    /\ pc = "stitch"
    /\ polygons' = Some(BuildPolygons(ways))
    /\ pc' = "stitched"
    /\ UNCHANGED <<radius, random_fill, osm, city, buildings, buildings_bbox,
                   roads, parks, water, loaded_nodes, raised>>
    /\ UNCHANGED <<ways, neighborVars, colorVars, extractVars>>
    /\ UNCHANGED <<drawVars, apiVars>>

---------------------------------------------------------------------------
(* The relation extractor: _extractWays, _extractRelations, *)
(* _queryRelationFeature                                    *)

\* Role(way["role"]), with ValueError caught: any other role is an outline
Role(r) == IF r \in {"inner", "outer", "outline"} THEN r ELSE "outline"

\* the members of a relation element that _extractRelations keeps
KeptMembers(members) ==
    LET Keep(m) == m.type = "way" /\ m.role # "part"
    IN  SelectSeq(members, Keep)

\* the role each way is left with after _extractRelations went through the
\* relation elements rels in order: current_way.role = role writes the one Way
\* object that all relations share
RECURSIVE RolesAfter(_, _)
RolesAfter(rels, roles) ==
    IF rels = <<>> THEN roles
    ELSE LET ms == KeptMembers(Head(rels).members)
             Last(w) == CHOOSE k \in DOMAIN ms :
                            ms[k].ref = w /\ \A j \in DOMAIN ms : ms[j].ref = w => j <= k
             set == [w \in DOMAIN roles |->
                        IF \E k \in DOMAIN ms : ms[k].ref = w
                        THEN Some(Role(ms[Last(w)].role)) ELSE roles[w]]
         IN  RolesAfter(Tail(rels), set)

\* _extractWays: way_id -> Way, for the way elements wayels of the response
ExtractWays(wayels) == [w \in DOMAIN wayels |-> Way(w, wayels[w])]

\* _extractRelations: the relations in the order of the response, each the
\* list of its ways, every way carrying the role it was left with
ExtractRelations(resp) ==
    LET roles == RolesAfter(resp.relations,
                            [w \in DOMAIN resp.ways |-> None])
        ws == ExtractWays(resp.ways)
    IN  [r \in DOMAIN resp.relations |->
            [relation_id |-> resp.relations[r].relation_id,
             ways |-> [k \in DOMAIN KeptMembers(resp.relations[r].members) |->
                          [ws[KeptMembers(resp.relations[r].members)[k].ref]
                              EXCEPT !.role = roles[KeptMembers(resp.relations[r].members)[k].ref]]]]]

\* Relation.outer_ways and Relation.inner_ways
outer_ways(relation) ==
    LET IsOuter(w) == w.role \in {Some("outer"), Some("outline")}
    IN  SelectSeq(relation.ways, IsOuter)

\* inner_ways filtering on the wrong role
inner_waysMutant(relation) ==
    LET IsInner(w) == w.role = Some("outline")
    IN  SelectSeq(relation.ways, IsInner)

inner_ways(relation) ==
    LET IsInner(w) == w.role = Some("inner")
    IN  SelectSeq(relation.ways, IsInner)

\* a loop that takes the last outer polyline as the outer ring
RECURSIVE FeaturesOfMutant(_)
FeaturesOfMutant(rels) ==
    IF rels = <<>> THEN <<>>
    ELSE LET outer == BuildPolygons(outer_ways(Head(rels)))
             inner == BuildPolygons(inner_ways(Head(rels)))
         IN  IF outer = <<>>
             THEN FeaturesOfMutant(Tail(rels))
             ELSE <<OverpassElement(outer[Len(outer)], inner, Head(rels).relation_id)>>
                      \o FeaturesOfMutant(Tail(rels))

\* the loop of _queryRelationFeature over the relations
RECURSIVE FeaturesOf(_)
FeaturesOf(rels) ==
    IF rels = <<>> THEN <<>>
    ELSE LET outer == BuildPolygons(outer_ways(Head(rels)))
             inner == BuildPolygons(inner_ways(Head(rels)))
         IN  IF outer = <<>>
             THEN FeaturesOf(Tail(rels))
             ELSE <<OverpassElement(outer[1], inner, Head(rels).relation_id)>>
                      \o FeaturesOf(Tail(rels))

\* the exception _extractWays raises on the way elements of the response:
\* element["nodes"], element["geometry"][x] and element["bounds"] are plain
\* subscripts, a KeyError on an element without the key
ExtractWaysRaises(resp) ==
    IF \E w \in DOMAIN resp.ways : resp.payload[w] # "full"
    THEN Some("KeyError") ELSE None

\* _combinePolygons subscripts p2[0]: an IndexError when a way without nodes
\* comes after the accumulator got its first node
BuildPolygonsRaises(ws) ==
    \E j, k \in DOMAIN ws : j < k /\ ws[j].nodes # <<>> /\ ws[k].nodes = <<>>

\* what _queryRelationFeature raises, if anything
RelationFeatureRaises(resp) ==
    IF ~IsNone(ExtractWaysRaises(resp)) THEN ExtractWaysRaises(resp)
    ELSE IF \E r \in Range(ExtractRelations(resp)) :
                BuildPolygonsRaises(outer_ways(r)) \/ BuildPolygonsRaises(inner_ways(r))
         THEN Some("IndexError")
         ELSE None

\* what _queryWayFeature raises, if anything: OverpassElement.__post__init__
\* raises ValueError on a feature without nodes
WayFeatureRaises(resp) ==
    IF ~IsNone(ExtractWaysRaises(resp)) THEN ExtractWaysRaises(resp)
    ELSE IF \E w \in DOMAIN resp.ways : resp.ways[w] = <<>>
         THEN Some("ValueError")
         ELSE None

\* the loop of _queryWayFeature over the ways
WayFeaturesOf(ws) == [w \in DOMAIN ws |-> OverpassElement(ws[w].nodes, <<>>, ws[w].way_id)]

QueryRelationFeature ==
    /\ pc = "extract"
    /\ IF IsNone(RelationFeatureRaises(Val(response)))
       THEN /\ features' = Some(FeaturesOf(ExtractRelations(Val(response))))
            /\ pc' = "extracted"
            /\ UNCHANGED raised
       ELSE /\ raised' = RelationFeatureRaises(Val(response))
            /\ pc' = "raised"
            /\ UNCHANGED features
    /\ UNCHANGED <<radius, random_fill, osm, city, buildings, buildings_bbox,
                   roads, parks, water, loaded_nodes>>
    /\ UNCHANGED <<response, neighborVars, colorVars, stitchVars>>
    /\ UNCHANGED <<drawVars, apiVars>>

QueryWayFeature ==
    /\ pc = "extract_ways"
    /\ IF IsNone(WayFeatureRaises(Val(response)))
       THEN /\ features' = Some(WayFeaturesOf(ExtractWays(Val(response).ways)))
            /\ pc' = "ways_extracted"
            /\ UNCHANGED raised
       ELSE /\ raised' = WayFeatureRaises(Val(response))
            /\ pc' = "raised"
            /\ UNCHANGED features
    /\ UNCHANGED <<radius, random_fill, osm, city, buildings, buildings_bbox,
                   roads, parks, water, loaded_nodes>>
    /\ UNCHANGED <<response, neighborVars, colorVars, stitchVars>>
    /\ UNCHANGED <<drawVars, apiVars>>

---------------------------------------------------------------------------
(* ApiInterface: _requestUrl, _loadCache, _saveCache and makeRequest, called *)
(* by runs that share the cache folder                                      *)

\* every URL kept in the file of the URLs' common name
CacheFileMutant(url) == <<"md5", "">>

\* hashlib.md5(url.encode()).hexdigest(): the name of the cache file of a URL,
\* one name per URL (collisions of md5 aside)
CacheFile(url) == <<"md5", url>>

\* the files makeRequest can find in the cache folder
CacheFiles == {CacheFile(u) : u \in Urls}

\* a cache file is the sequence of the chunks written to it; a chunk is
\* <<writer, position in the writer's entry, chunks of the entry>>
Hole == <<0, 0, 0>>

\* the json text of an ApiRequest written whole by one _saveCache
Entry(writer, n) == [i \in 1..n |-> <<writer, i, n>>]

\* json.loads accepts the text read: it is one entry, written whole
Complete(file) == file # <<>> /\ file = Entry(file[1][1], Len(file))

\* f.write at the position i of the writer's file object
WriteAt(file, i, chunk) ==
    LET padded == IF Len(file) < i - 1
                  THEN file \o [j \in 1..(i - 1 - Len(file)) |-> Hole]
                  ELSE file
    IN  IF Len(padded) >= i THEN [padded EXCEPT ![i] = chunk] ELSE Append(padded, chunk)

\* the frames of a run inside makeRequest, the innermost last
Frames(caller) == <<"load", caller, "makeRequest">>

\* the exceptions a frame catches: _requestUrl catches Timeout and nothing
\* else; load, the OSM queries and makeRequest catch nothing
Handles(frame, exc) == frame = "_requestUrl" /\ exc = "Timeout"

IdleProc ==
    [pc |-> "idle", url |-> None, max_retries |-> 0, cache_expire |-> FALSE,
     attempts |-> 0, timeouts |-> 0, last |-> None, size |-> 0, written |-> 0,
     fresh |-> None,
     result |-> None, exc |-> None, stack |-> <<>>]

\* the status codes of the responses requests.get returns
StatusCodes == {"200", "500"}

\* a fetch that gives back the body of a 200 response only
ReturnedMutant(outcome) == outcome = "200"

\* return response.text: whatever the status code of the response (one that
\* is not 200 is logged)
Returned(outcome) == outcome \in StatusCodes

\* range(max_retries) with one more round
RetriesLeftMutant(proc) == proc.attempts <= proc.max_retries

\* for i in range(max_retries): another round is left
RetriesLeft(proc) == proc.attempts < proc.max_retries

ApiStep(p, proc) ==
    /\ procs' = [procs EXCEPT ![p] = proc]
    /\ UNCHANGED <<loadVars, neighborVars, colorVars, stitchVars, extractVars, drawVars>>

\* makeRequest(url, max_retries, cache_expire) called from a query of load
MakeRequest(p) ==
    /\ procs[p].pc = "idle"
    /\ \E url \in Urls, max_retries \in RetryBudgets, cache_expire \in BOOLEAN,
          caller \in Callers :
          ApiStep(p, [procs[p] EXCEPT !.pc = "load_cache", !.url = Some(url),
                                     !.max_retries = max_retries,
                                     !.cache_expire = cache_expire,
                                     !.stack = Frames(caller)])
    /\ UNCHANGED cache

\* _loadCache: os.path.exists(cache_file)
LoadCacheExists(p) ==
    /\ procs[p].pc = "load_cache"
    /\ IF IsNone(cache[CacheFile(Val(procs[p].url))])
       THEN ApiStep(p, [procs[p] EXCEPT !.pc = "request",
                                       !.stack = Append(@, "_requestUrl")])
       ELSE ApiStep(p, [procs[p] EXCEPT !.pc = "read_cache"])
    /\ UNCHANGED cache

\* _loadCache: the file is opened, read and parsed; makeRequest returns the
\* entry unless it expired
LoadCacheRead(p) ==
    /\ procs[p].pc = "read_cache"
    /\ LET file == Val(cache[CacheFile(Val(procs[p].url))])
       IN  IF Complete(file)
           THEN \E fresh \in BOOLEAN :
                   IF fresh \/ ~procs[p].cache_expire
                   THEN ApiStep(p, [procs[p] EXCEPT !.pc = "done", !.result = Some(file),
                                                   !.fresh = Some(fresh), !.stack = <<>>])
                   ELSE ApiStep(p, [procs[p] EXCEPT !.pc = "request",
                                                   !.fresh = Some(fresh),
                                                   !.stack = Append(@, "_requestUrl")])
           ELSE ApiStep(p, [procs[p] EXCEPT !.pc = "unwinding",
                                           !.exc = Some("JSONDecodeError")])
    /\ UNCHANGED cache

\* _requestUrl: one round of the loop, or the raise after it
RequestUrl(p) ==
    /\ procs[p].pc = "request"
    /\ IF RetriesLeft(procs[p])
       THEN \E outcome \in StatusCodes \cup {"Timeout", "ConnectionError"} :
               LET tried == [procs[p] EXCEPT !.attempts = @ + 1, !.last = Some(outcome)]
               IN  IF Returned(outcome)
                   THEN ApiStep(p, [tried EXCEPT !.pc = "save_cache",
                                                !.stack = Frames(tried.stack[2])])
                   ELSE IF Handles("_requestUrl", outcome)
                   THEN ApiStep(p, [tried EXCEPT !.timeouts = @ + 1])
                   ELSE ApiStep(p, [tried EXCEPT !.pc = "unwinding", !.exc = Some(outcome)])
       ELSE ApiStep(p, [procs[p] EXCEPT !.pc = "unwinding", !.exc = Some("ApiError")])
    /\ UNCHANGED cache

\* _saveCache: open(cache_file, "w") creates the file or empties it
SaveCacheOpen(p) ==
    /\ procs[p].pc = "save_cache"
    /\ cache' = [cache EXCEPT ![CacheFile(Val(procs[p].url))] = Some(<<>>)]
    /\ \E n \in 1..MaxChunks :
          ApiStep(p, [procs[p] EXCEPT !.pc = "write", !.size = n, !.written = 0])

\* _saveCache: the next chunk of the entry reaches the file; after the last
\* one the file is closed and makeRequest returns the entry
SaveCacheWrite(p) ==
    /\ procs[p].pc = "write"
    /\ LET i == procs[p].written + 1
           u == CacheFile(Val(procs[p].url))
       IN  /\ cache' = [cache EXCEPT ![u] = Some(WriteAt(Val(cache[u]), i, <<p, i, procs[p].size>>))]
           /\ IF i = procs[p].size
              THEN ApiStep(p, [procs[p] EXCEPT !.written = i, !.pc = "done",
                                              !.result = Some(Entry(p, procs[p].size)),
                                              !.stack = <<>>])
              ELSE ApiStep(p, [procs[p] EXCEPT !.written = i])

\* an exception leaves the innermost frame, which does not catch it; past
\* load it ends the run
Unwind(p) ==
    /\ procs[p].pc = "unwinding"
    /\ ~Handles(procs[p].stack[Len(procs[p].stack)], Val(procs[p].exc))
    /\ LET rest == SubSeq(procs[p].stack, 1, Len(procs[p].stack) - 1)
       IN  ApiStep(p, [procs[p] EXCEPT !.stack = rest,
                                      !.pc = IF rest = <<>> THEN "raised" ELSE "unwinding"])
    /\ UNCHANGED cache

IdleApi == cache = [f \in CacheFiles |-> None] /\ procs = [p \in Procs |-> IdleProc]

---------------------------------------------------------------------------
(* Initial values of the parts a specification does not run *)

IdleLoad ==
    /\ radius = DefaultRadius /\ random_fill = FALSE
    /\ osm = None /\ city = None /\ buildings = <<>> /\ buildings_bbox = None
    /\ roads = None /\ parks = None /\ water = None
    /\ loaded_nodes = None /\ raised = None
    /\ x = 0 /\ pass = 0 /\ first_neighbors = None
    /\ percent = 0 /\ progress = <<>>

IdleColors ==
    /\ retry = 0 /\ pos = 0 /\ visits = <<>> /\ fails = 0
    /\ best_fails = 0 /\ best_buildings = <<>> /\ history = <<>>

IdleStitch == ways = <<>> /\ polygons = None

IdleExtract == response = None /\ features = None

IdleDraw == size = None /\ drawn = <<>>

---------------------------------------------------------------------------
(* Adjacency resolution alone, on every list of catalogue buildings *)

BuildingLists == UNION {[1..n -> Catalogue] : n \in 1..MaxBuildings}

InitNeighbors ==
    /\ \E l \in BuildingLists :
          /\ buildings = [k \in DOMAIN l |-> MapBuilding(Building(l[k]))]
          /\ buildings_bbox = BuildingsBbox([k \in DOMAIN l |-> Building(l[k])])
          /\ osm = None
    /\ radius \in Radii
    /\ pc = "neighbors" /\ random_fill = FALSE /\ city = None
    /\ roads = None /\ parks = None /\ water = None
    /\ loaded_nodes = None /\ raised = None
    /\ x = 0 /\ pass = 1 /\ first_neighbors = None
    /\ percent = 0 /\ progress = <<>>
    /\ IdleColors /\ IdleStitch /\ IdleExtract /\ IdleDraw /\ IdleApi

NextNeighbors == AssignNeighbors \/ AssignNeighborsReturn \/ AssignNeighborsAgain

SpecNeighbors == InitNeighbors /\ [][NextNeighbors]_vars

---------------------------------------------------------------------------
(* CityMap.load on a family of answers of the OSM collaborator *)

\* every order of the list l
Orders(l) == {[k \in DOMAIN l |-> l[p[k]]] : p \in Permutations(DOMAIN l)}

\* the four cells of a 2 x 2 grid, in every order
GridLists == Orders(<<FootSW, FootS, FootW, FootC>>)

\* a cell and the four cells around it (each shares a side with it): the
\* middle cell last, and first
PlusLists == {<<FootS, FootW, FootE, FootN, FootC>>, <<FootC, FootS, FootW, FootE, FootN>>}

\* no building, one, and a cell with the triangle on three of its corners
SmallLists == {<<>>, <<FootC>>, <<FootC, FootT>>, <<FootT, FootC>>}

Datasets == GridLists \cup PlusLists \cup SmallLists

Road == OverpassElement(<<1, 2, 3>>, <<>>, 101)
Park == OverpassElement(Cell(2, 2), <<>>, 102)
Water == OverpassElement(Cell(0, 2), <<>>, 103)

\* what the queries for roads, parks and water answer
FeatureAnswers ==
    { [roads |-> <<>>, parks |-> <<>>, water |-> <<>>],
      [roads |-> <<Road>>, parks |-> <<Park>>, water |-> <<Water>>],
      [roads |-> <<Road>>, parks |-> <<>>, water |-> <<Water>>] }

Init ==
    /\ \E l \in Datasets, f \in FeatureAnswers, found \in BOOLEAN :
          osm = [city_found |-> found,
                 buildings |-> [k \in DOMAIN l |-> Building(l[k])],
                 roads |-> f.roads, parks |-> f.parks, water |-> f.water]
    /\ radius \in Radii
    /\ random_fill \in BOOLEAN
    /\ pc = "load"
    /\ city = None /\ buildings = <<>> /\ buildings_bbox = None
    /\ roads = None /\ parks = None /\ water = None
    /\ loaded_nodes = None /\ raised = None
    /\ x = 0 /\ pass = 0 /\ first_neighbors = None
    /\ percent = 0 /\ progress = <<>>
    /\ IdleColors /\ IdleStitch /\ IdleExtract /\ IdleDraw /\ IdleApi

Next ==
    \/ GetCity
    \/ GetBuildings
    \/ AssignNeighbors
    \/ AssignNeighborsReturn
    \/ PickBuildingsColors
    \/ StartAttempt
    \/ ColorBuilding
    \/ EndAttempt
    \/ ReturnColors
    \/ GetFeatures

Spec == Init /\ [][Next]_vars

---------------------------------------------------------------------------
(* _assignNeighbors on lists long enough for iterations without a progress *)
(* line: the catalogue's buildings, repeated                              *)

CatalogueList == <<FootSW, FootS, FootW, FootC, FootT>>

LongList(n) ==
    [k \in 1..n |-> MapBuilding(Building(CatalogueList[((k - 1) % Len(CatalogueList)) + 1]))]

InitProgress ==
    /\ \E n \in 1..MaxProgress : buildings = LongList(n)
    /\ buildings_bbox = BuildingsBbox(buildings)
    /\ radius \in Radii
    /\ random_fill = FALSE
    /\ pc = "neighbors" /\ x = 0 /\ pass = 1 /\ first_neighbors = None
    /\ percent = 0 /\ progress = <<>>
    /\ osm = None /\ city = Some("city")
    /\ roads = None /\ parks = None /\ water = None
    /\ loaded_nodes = None /\ raised = None
    /\ IdleColors /\ IdleStitch /\ IdleExtract /\ IdleDraw /\ IdleApi

NextProgress == AssignNeighbors \/ AssignNeighborsReturn

SpecProgress == InitProgress /\ [][NextProgress]_vars

---------------------------------------------------------------------------
(* _pickBuildingsColors after _assignNeighbors, as load calls it, and on its *)
(* own on buildings loaded with random_fill, whose neighbor sets are unset   *)

InitPick ==
    /\ \E l \in Datasets \ {<<>>} :
          /\ buildings = [k \in DOMAIN l |-> MapBuilding(Building(l[k]))]
          /\ buildings_bbox = BuildingsBbox(buildings)
    /\ radius \in Radii
    /\ \/ random_fill = FALSE /\ pc = "neighbors" /\ pass = 1
       \/ random_fill = TRUE /\ pc = "neighbors_done" /\ pass = 0
    /\ x = 0 /\ first_neighbors = None
    /\ percent = 0 /\ progress = <<>>
    /\ osm = None /\ city = Some("city")
    /\ roads = None /\ parks = None /\ water = None
    /\ loaded_nodes = None /\ raised = None
    /\ IdleColors /\ IdleStitch /\ IdleExtract /\ IdleDraw /\ IdleApi

NextPick ==
    \/ AssignNeighbors
    \/ AssignNeighborsReturn
    \/ PickBuildingsColors
    \/ StartAttempt
    \/ ColorBuilding
    \/ EndAttempt
    \/ ReturnColors

SpecPick == InitPick /\ [][NextPick]_vars

---------------------------------------------------------------------------
(* load followed by draw, on buildings and features with rings inside, *)
(* across and outside the buildings' bounding box                      *)

\* a building whose nodes lie on one parallel
FootFlat == <<GridW + 1, GridW + 2, GridW + 3>>

\* the square around the whole grid
GridSquare == <<1, GridW, GridW * GridW, GridW * GridW - GridW + 1, 1>>

\* a feature with two inner rings, the second of two nodes
Lake == OverpassElement(GridSquare, <<FootC, <<FootC[1], FootC[2]>>>>, 104)

\* a building with an inner ring
Courtyard == OverpassElement(GridSquare, <<FootC>>, 105)

DrawBuildingAnswers ==
    { <<Building(FootC)>>,
      <<Building(FootC), Building(FootT)>>,
      <<Building(FootSW), Building(FootC)>>,
      <<Building(FootFlat)>>,
      <<Courtyard>>,
      <<Building(FootS), Building(FootW), Building(FootE), Building(FootN), Building(FootC)>> }

DrawFeatureAnswers ==
    { [roads |-> <<Road>>, parks |-> <<Park>>, water |-> <<Water, Lake>>],
      [roads |-> <<>>, parks |-> <<Lake>>, water |-> <<>>] }

InitDraw ==
    /\ \E bs \in DrawBuildingAnswers, f \in DrawFeatureAnswers :
          osm = [city_found |-> TRUE, buildings |-> bs,
                 roads |-> f.roads, parks |-> f.parks, water |-> f.water]
    /\ radius \in Radii
    /\ random_fill \in BOOLEAN
    /\ pc = "load"
    /\ city = None /\ buildings = <<>> /\ buildings_bbox = None
    /\ roads = None /\ parks = None /\ water = None
    /\ loaded_nodes = None /\ raised = None
    /\ x = 0 /\ pass = 0 /\ first_neighbors = None
    /\ percent = 0 /\ progress = <<>>
    /\ IdleColors /\ IdleStitch /\ IdleExtract /\ IdleDraw /\ IdleApi

NextDraw ==
    \/ GetCity
    \/ GetBuildings
    \/ AssignNeighbors
    \/ AssignNeighborsReturn
    \/ PickBuildingsColors
    \/ StartAttempt
    \/ ColorBuilding
    \/ EndAttempt
    \/ ReturnColors
    \/ GetFeatures
    \/ DrawParks
    \/ DrawWater
    \/ DrawRoads
    \/ DrawBuildings
    \/ CreateImage

SpecDraw == InitDraw /\ [][NextDraw]_vars

---------------------------------------------------------------------------
(* The stitcher on the fragments of a closed ring, in any order and direction *)

\* the ring of r nodes 1, 2, ..., r, 1; the arc from node c forward to node d
\* (once around when d = c)
Arc(r, c, d) == [k \in 1..(((d - c - 1) % r) + 2) |-> ((c + k - 2) % r) + 1]

\* the first cut node after c on the ring of r nodes cut at the nodes of K
NextCut(r, K, c) ==
    CHOOSE d \in K : \A e \in K : ((d - c - 1) % r) <= ((e - c - 1) % r)

\* the lists of ways a ring of r nodes cut at the nodes of K can be given as:
\* one way per fragment, in any order, each forward or reversed
RingWays(r, K) ==
    { [k \in 1..Cardinality(K) |->
          Way(k, IF flip[k] THEN Reverse(Arc(r, order[k], NextCut(r, K, order[k])))
                 ELSE Arc(r, order[k], NextCut(r, K, order[k])))] :
        order \in {o \in [1..Cardinality(K) -> K] : \A a, b \in DOMAIN o : o[a] = o[b] => a = b},
        flip \in [1..Cardinality(K) -> BOOLEAN] }

InitStitch ==
    /\ \/ ways = <<>>
       \/ \E r \in 3..MaxRing : \E K \in (SUBSET (1..r)) \ {{}} : ways \in RingWays(r, K)
    /\ polygons = None
    /\ pc = "stitch" /\ IdleLoad /\ IdleColors /\ IdleExtract /\ IdleDraw /\ IdleApi

SpecStitch == InitStitch /\ [][Stitch]_vars

---------------------------------------------------------------------------
(* The extractor on responses of one or two relations over four ways *)

\* the way elements of every response: an outer square, an inner square, and
\* the two halves of the outer square
WayElements ==
    << <<1, GridW, GridW * GridW, GridW * GridW - GridW + 1, 1>>,
       Cell(1, 1),
       <<1, GridW, GridW * GridW>>,
       <<GridW * GridW, GridW * GridW - GridW + 1, 1>> >>

\* the positions of the two squares in WayElements
OuterSquare == CHOOSE k \in DOMAIN WayElements : WayElements[k][2] = GridW /\ Len(WayElements[k]) = 5
InnerSquare == CHOOSE k \in DOMAIN WayElements : WayElements[k] = Cell(1, 1)

Members ==
    [type : {"way"}, ref : DOMAIN WayElements, role : {"outer", "inner", "part", ""}]
        \cup {[type |-> "node", ref |-> 1, role |-> ""]}

MemberLists == UNION {[1..n -> Members] : n \in 1..MaxMembers}

\* one relation, or that relation and a second one of a single member
RelationLists ==
    { <<[relation_id |-> 201, members |-> ms]>> : ms \in MemberLists }
    \cup { <<[relation_id |-> 201, members |-> ms], [relation_id |-> 202, members |-> <<m>>]>> :
             ms \in MemberLists, m \in Members }

InitExtract ==
    /\ \E rels \in RelationLists : response = Some([ways |-> WayElements,
                                                     payload |-> [w \in DOMAIN WayElements |-> "full"],
                                                     relations |-> rels])
    /\ features = None
    /\ pc = "extract" /\ IdleLoad /\ IdleColors /\ IdleStitch /\ IdleDraw /\ IdleApi

SpecExtract == InitExtract /\ [][QueryRelationFeature]_vars

---------------------------------------------------------------------------
(* The two extractors on responses with ways that lack a payload *)

\* the way elements: those of WayElements and a way with an empty node list
PayloadWays == Append(WayElements, <<>>)

\* what each way element carries: all its keys, no "geometry" (and no
\* "bounds"), or no "nodes"; at most one element of a response is short
Payloads ==
    {[w \in DOMAIN PayloadWays |-> "full"]}
    \cup {[w \in DOMAIN PayloadWays |-> IF w = v THEN kind ELSE "full"] :
             v \in DOMAIN PayloadWays, kind \in {"no_geometry", "no_nodes"}}

PayloadMembers == [type : {"way"}, ref : DOMAIN PayloadWays, role : {"outer", "inner"}]

\* one relation of 1..MaxMembers way members
PayloadRelationLists ==
    UNION {{ <<[relation_id |-> 201, members |-> ms]>> : ms \in [1..n -> PayloadMembers] } :
             n \in 1..MaxMembers}

InitPayload ==
    /\ \E rels \in PayloadRelationLists, payload \in Payloads :
          response = Some([ways |-> PayloadWays, payload |-> payload, relations |-> rels])
    /\ features = None
    /\ pc \in {"extract", "extract_ways"}
    /\ IdleLoad /\ IdleColors /\ IdleStitch /\ IdleDraw /\ IdleApi

NextPayload == QueryRelationFeature \/ QueryWayFeature

SpecPayload == InitPayload /\ [][NextPayload]_vars

---------------------------------------------------------------------------
(* Runs that call makeRequest on a shared cache folder *)

\* the cache folder holds no file for a URL, or an entry an earlier run wrote
InitApi ==
    /\ cache \in [CacheFiles -> {None, Some(Entry(0, 1))}]
    /\ procs = [p \in Procs |-> IdleProc]
    /\ pc = "requests"
    /\ IdleLoad /\ IdleColors /\ IdleStitch /\ IdleExtract /\ IdleDraw

NextApi ==
    \E p \in Procs :
        \/ MakeRequest(p)
        \/ LoadCacheExists(p)
        \/ LoadCacheRead(p)
        \/ RequestUrl(p)
        \/ SaveCacheOpen(p)
        \/ SaveCacheWrite(p)
        \/ Unwind(p)

SpecApi == InitApi /\ [][NextApi]_vars

---------------------------------------------------------------------------
(* Claims on adjacency resolution *)

Neighbors(k) == Val(buildings[k].neighbors)

\* C1: after _assignNeighbors the neighbor relation is symmetric: for all
\* buildings A and B, A is in B.neighbors iff B is in A.neighbors.
C1_NeighborsSymmetric ==
    pc = "neighbors_done" =>
        \A a, b \in DOMAIN buildings : (a \in Neighbors(b)) <=> (b \in Neighbors(a))

\* the list bs with position k holding bs[p[k]]
Permuted(bs, p) == [k \in DOMAIN bs |-> bs[p[k]]]

\* the footprints (node lists) of the buildings of bs at the positions in set
Footprints(bs, set) == {bs[j].nodes : j \in set}

\* C5: _assignNeighbors on the same buildings in any list order, or run a second
\* time on the unchanged buildings, yields the same neighbor set for every
\* building (neighbor sets compared by the footprints of their members).
C5_NeighborsOrderIndependent ==
    pc = "neighbors_done" =>
        /\ \A p \in Permutations(DOMAIN buildings) : \A k \in DOMAIN buildings :
               Footprints(Permuted(buildings, p),
                          NeighborsOf(Permuted(buildings, p), k, buildings_bbox, radius))
                   = Footprints(buildings, Neighbors(p[k]))
        /\ pass = 2 => \A k \in DOMAIN buildings : buildings[k].neighbors = first_neighbors[k]

---------------------------------------------------------------------------
(* Claims on the colorer *)

Adjacent(bs, a, b) == b \in Val(bs[a].neighbors) \/ a \in Val(bs[b].neighbors)

\* C2: whenever _assignColors reports zero failures, every building of the
\* returned list has a color index and any two adjacent buildings (one in the
\* other's neighbors) have different color indices.
C2_ZeroFailsProperColoring ==
    (pc = "colors_done" /\ best_fails = 0) =>
        /\ Uncolored(buildings) = {}
        /\ \A a, b \in DOMAIN buildings :
               Adjacent(buildings, a, b) => buildings[a].color_id # buildings[b].color_id

InColorer == pc \in {"colors", "attempt", "colors_return"}

\* what is left to do in _assignColors: attempts not started, then buildings
\* not visited in the running attempt, then the steps that end it
Rank ==
    IF ~InColorer THEN 0
    ELSE (MaxRetries - retry) * (Len(buildings) + 3)
         + (CASE pc = "colors" -> 2
              [] pc = "colors_return" -> 1
              [] pc = "attempt" -> (Len(buildings) + 1 - pos) + 3)

\* C4: _assignColors terminates after at most max_retries attempts, each attempt
\* visiting every building exactly once, whether or not a zero-failure coloring
\* is found: no more than max_retries attempts start, an attempt ends with every
\* building visited once, the colorer can always take a step, and every step
\* lowers a rank that never drops below zero.
C4_ColorerTerminates ==
    /\ [](InColorer => retry <= MaxRetries /\ Rank >= 0 /\ ENABLED Next)
    /\ []((pc = "attempt" /\ pos = Len(buildings) + 1) =>
             \A k \in DOMAIN buildings : visits[k] = 1)
    /\ []((pc = "attempt" /\ pos <= Len(buildings)) =>
             \A k \in DOMAIN buildings : visits[k] = IF k < pos THEN 1 ELSE 0)
    /\ [][InColorer => Rank' < Rank]_vars

\* the colorer used up its attempts without a zero-failure coloring
C4_BudgetExhausted ==
    pc = "colors_done" /\ Len(history) = MaxRetries /\ best_fails > 0

\* C6: the failure count _assignColors returns is the minimum over the attempts
\* run, and the returned list is the snapshot of an attempt that achieved it:
\* it holds every input building, exactly that many of them uncolored, and
\* the snapshot changes only at the end of an attempt with fewer fails than any
\* before, when it becomes that attempt's coloring.
C6_BestSnapshotReturned ==
    /\ [](pc = "colors_done" =>
             /\ history # <<>>
             /\ best_fails = SetMin(Range(history))
             /\ Len(buildings) = Len(osm.buildings)
             /\ \A k \in DOMAIN buildings : buildings[k].nodes = osm.buildings[k].nodes
             /\ Cardinality(Uncolored(buildings)) = best_fails
             /\ buildings = best_buildings)
    /\ [][(InColorer /\ best_buildings' # best_buildings) =>
             /\ pc = "attempt" /\ pos = Len(buildings) + 1
             /\ \A k \in DOMAIN history : fails < history[k]
             /\ best_fails' = fails
             /\ best_buildings' = buildings
             /\ Cardinality(Uncolored(buildings)) = fails]_vars

\* a second attempt ended no better than the first and colored otherwise: the
\* snapshot is still the first attempt's
C6_LaterAttemptWorse ==
    /\ pc = "colors" /\ Len(history) = 2
    /\ history[1] > 0 /\ history[2] >= history[1]
    /\ best_fails = history[1]
    /\ best_buildings # buildings
    /\ Cardinality(Uncolored(best_buildings)) = best_fails

LastFails == history[Len(history)]

\* C7: as soon as an attempt ends with zero failures no further attempt is run
\* and that attempt's coloring is returned; a new attempt starts only after an
\* attempt with at least one failure and only while fewer than max_retries
\* attempts have been run.
C7_StopOnZeroFails ==
    /\ [][retry' > retry =>
             /\ retry < MaxRetries
             /\ Len(history) = retry
             /\ history # <<>> => LastFails > 0]_vars
    /\ [][(InColorer /\ history # <<>> /\ LastFails = 0) =>
             /\ retry' = retry
             /\ pc = "colors_return" /\ pc' = "colors_done"
             /\ buildings' = buildings
             /\ Uncolored(buildings') = {}]_vars

\* a first attempt that failed, then a second one without failures, returned
C7_SecondAttemptSucceeded ==
    /\ pc = "colors_done" /\ Len(history) = 2
    /\ history[1] > 0 /\ history[2] = 0
    /\ Uncolored(buildings) = {}

SharedNodes(a, b) == NodeIds(a.nodes) \cap NodeIds(b.nodes)

\* the buildings are the four cells of the 2 x 2 grid, in some order
IsGrid == <<[k \in DOMAIN osm.buildings |-> osm.buildings[k].nodes]>> \in {<<l>> : l \in GridLists}

\* C8: four buildings in a 2 x 2 grid, each orthogonal pair sharing at least 2
\* boundary nodes and the diagonal pairs at most one, 4-color palette: adjacency
\* resolution followed by coloring reports zero failures and every orthogonal
\* pair gets different colors.
C8_GridOrthogonalPairsDiffer ==
    (pc = "colors_done" /\ IsGrid) =>
        /\ best_fails = 0
        /\ \A a, b \in DOMAIN buildings :
               Cardinality(SharedNodes(buildings[a], buildings[b])) >= 2 /\ a # b
                   => buildings[a].color_id # buildings[b].color_id

---------------------------------------------------------------------------
(* Claims on load *)

\* C10: when the feature query for a category (buildings, roads, parks, water)
\* returns zero elements, load completes without raising and reports 0
\* features for that category.
C10_EmptyCategoryLoads ==
    osm.city_found =>
        /\ IsNone(raised)
        /\ pc = "loaded" =>
               /\ osm.buildings = <<>> => buildings = <<>>
               /\ osm.roads = <<>> => roads = Some(<<>>)
               /\ osm.parks = <<>> => parks = Some(<<>>)
               /\ osm.water = <<>> => water = Some(<<>>)

---------------------------------------------------------------------------
(* Claims on the stitcher *)

AllNodes(ws) == UNION {Range(ws[k].nodes) : k \in DOMAIN ws}

StitchedToOne ==
    /\ Len(Val(polygons)) = 1
    /\ Range(Val(polygons)[1]) = AllNodes(ways)

Ends(w) == {w.nodes[1], w.nodes[Len(w.nodes)]}

\* every way after the first shares an end node with a way before it
ConnectedOrder(ws) ==
    \A k \in 2..Len(ws) : \E j \in 1..(k - 1) : Ends(ws[k]) \cap Ends(ws[j]) # {}

\* C3 as stated: a closed ring split into N fragments, given in any order and
\* with any subset reversed, is stitched to exactly one polyline whose nodes
\* are the union of the fragments' nodes.
C3_RingStitchedToOne ==
    (pc = "stitched" /\ ways # <<>>) => StitchedToOne

\* C3 amended: the same, for the orders in which every fragment after the
\* first shares an end node with a fragment before it.
C3_ConnectedRingStitchedToOne ==
    (pc = "stitched" /\ ways # <<>> /\ ConnectedOrder(ways)) => StitchedToOne

\* four fragments in a connected order that is not the ring's, one reversed
C3_ConnectedFourFragments ==
    /\ pc = "stitched" /\ Len(ways) = 4 /\ ConnectedOrder(ways)
    /\ ways[2].nodes[1] # ways[1].nodes[Len(ways[1].nodes)]
    /\ \E k \in DOMAIN ways : ways[k].nodes[1] > ways[k].nodes[2] /\ ways[k].nodes[1] # MaxRing
    /\ StitchedToOne

---------------------------------------------------------------------------
(* Claims on the extractor *)

WayMembers(rel) ==
    LET IsWay(m) == m.type = "way"
    IN  SelectSeq(rel.members, IsWay)

OuterMember == [type |-> "way", ref |-> OuterSquare, role |-> "outer"]
InnerMember == [type |-> "way", ref |-> InnerSquare, role |-> "inner"]

\* the response holds one relation, whose way members are the outer square
\* as outer and the inner square as inner
OuterInnerScenario ==
    /\ ~IsNone(response)
    /\ Len(Val(response).relations) = 1
    /\ WayMembers(Val(response).relations[1])
           \in {<<OuterMember, InnerMember>>, <<InnerMember, OuterMember>>}

\* C9: for a relation whose way members are one outer 4-node square way and
\* one inner 4-node square way, _queryRelationFeature produces exactly one
\* feature, whose outer ring is the nodes of the outer way and whose inner
\* rings are exactly one ring, the nodes of the inner way.
C9_OuterInnerSquares ==
    (pc = "extracted" /\ OuterInnerScenario) =>
        /\ Len(Val(features)) = 1
        /\ Val(features)[1].nodes = WayElements[OuterSquare]
        /\ Cardinality(Range(Val(features)[1].nodes)) = 4
        /\ Val(features)[1].inner_nodes = <<WayElements[InnerSquare]>>
        /\ Cardinality(Range(Val(features)[1].inner_nodes[1])) = 4
        /\ Val(features)[1].element_id = Val(response).relations[1].relation_id

\* the scenario was extracted, the inner member listed first
C9_ScenarioExtracted ==
    /\ pc = "extracted" /\ OuterInnerScenario
    /\ WayMembers(Val(response).relations[1])[1] = InnerMember
    /\ Len(Val(features)) = 1

---------------------------------------------------------------------------
(* Claims on the failure of the place lookup *)

\* C11: when the place lookup finds no match, load fails with the lookup's
\* error (ValueError) in its first step, before any feature query, and nothing
\* is set by the failed run: no city, building list, bounding box, feature
\* list or node count.
C11_NotFoundNoPartialState ==
    /\ [](~osm.city_found =>
             /\ pc \in {"load", "raised"}
             /\ pc = "raised" => raised = Some("ValueError")
             /\ city = None /\ buildings = <<>> /\ buildings_bbox = None
             /\ roads = None /\ parks = None /\ water = None
             /\ loaded_nodes = None)
    /\ [][~osm.city_found => (pc = "load" /\ pc' = "raised")]_vars

\* the lookup failed although the feature queries had answers to give
C11_LookupFailed ==
    /\ pc = "raised" /\ ~osm.city_found /\ raised = Some("ValueError")
    /\ osm.buildings # <<>> /\ osm.roads # <<>>

---------------------------------------------------------------------------
(* Claims on the stitcher's empty input *)

\* C20: _buildPolygons applied to an empty list of ways returns an empty list
\* of polylines and raises nothing.
C20_EmptyWaysEmptyPolygons ==
    (pc = "stitched" /\ ways = <<>>) => (polygons = Some(<<>>) /\ IsNone(raised))

\* the stitcher returned from an empty list of ways
C20_EmptyWaysStitched ==
    pc = "stitched" /\ ways = <<>> /\ ~IsNone(polygons)

---------------------------------------------------------------------------
(* Claims on the colorer's precondition *)

\* C19: whenever _assignColors runs, every building passed to it has a
\* computed neighbor set (possibly empty), never the unset value: the colorer
\* is entered only from _pickBuildingsColors with every set assigned, after
\* _assignNeighbors went through every building when it ran, and
\* _pickBuildingsColors returns without coloring when a set is unset.
C19_ColorerSeesComputedNeighbors ==
    /\ [](InColorer => \A k \in DOMAIN buildings : ~IsNone(buildings[k].neighbors))
    /\ [][(~InColorer /\ InColorer') =>
             /\ pc = "neighbors_done"
             /\ \A k \in DOMAIN buildings : ~IsNone(buildings[k].neighbors)
             /\ pass = 1 => x = Len(buildings)]_vars
    /\ [][(pc = "neighbors_done" /\ AnyNeighborsUnset(buildings)) =>
             /\ pc' = "features"
             /\ buildings' = buildings
             /\ UNCHANGED colorVars]_vars

\* _pickBuildingsColors returned without coloring buildings whose neighbor
\* sets are unset
C19_ColoringSkipped ==
    /\ pc = "features" /\ random_fill /\ buildings # <<>>
    /\ \A k \in DOMAIN buildings :
           IsNone(buildings[k].neighbors) /\ IsNone(buildings[k].color_id)
    /\ history = <<>>

---------------------------------------------------------------------------
(* Claims on the progress lines of adjacency resolution *)

\* C14: during _assignNeighbors the reported percentages never decrease and
\* each lies within 0 and 100 percent, for every number of buildings; the
\* remaining time reported with it is never negative (a non-negative ratio
\* times the elapsed time) and never divides by zero: no iteration raises.
C14_ProgressMonotonicBounded ==
    /\ [](\A k \in DOMAIN progress :
             /\ progress[k].percent >= 0 /\ progress[k].percent <= 10000
             /\ progress[k].remaining[1] >= 0 /\ progress[k].remaining[2] > 0)
    /\ [](\A j, k \in DOMAIN progress :
             j <= k => progress[j].percent <= progress[k].percent)
    /\ [][(pc = "neighbors" /\ x < Len(buildings)) => (pc' = "neighbors" /\ IsNone(raised'))]_vars
    /\ [][progress' # progress =>
             /\ \E line \in ProgressLines(x, Len(buildings)) :
                    progress' = Append(progress, line)
             /\ x > 0]_vars

\* a run that logged several lines and also went through iterations that
\* logged none
C14_LinesAndSilentSteps ==
    /\ pc = "neighbors_done" /\ Len(progress) >= 3
    /\ Len(progress) < Len(buildings) - 1
    /\ progress[1].percent < progress[Len(progress)].percent

---------------------------------------------------------------------------
(* Claims on the normalizer and on drawing *)

\* the rings draw goes through once the map is loaded
AllRings ==
    Rings(Val(parks)) \o Rings(Val(water)) \o Rings(Val(roads)) \o Rings(buildings)

\* the normalized position of node n lies within [0, 1] on both axes
WithinUnit(n, bbox) ==
    /\ ~Degenerate(bbox)
    /\ 0 <= lon(n) - bbox[2] /\ lon(n) - bbox[2] <= bbox[4] - bbox[2]
    /\ 0 <= lat(n) - bbox[1] /\ lat(n) - bbox[1] <= bbox[3] - bbox[1]

\* q = int(v * side) for the ratio v = num / den, den > 0
IntOfScaled(q, num, den, side) == q * den <= num * side /\ num * side < (q + 1) * den

\* the j-th smallest member of the set of positions K
Kth(K, j) == CHOOSE k \in K : Cardinality({i \in K : i <= k}) = j

\* the points emitted for the ring nodes are, in input order, the pixels of
\* the nodes within the unit square, and lie within the image
EmitsInside(nodes, bbox, width, height) ==
    LET points == NormalizeCoordinate(nodes, bbox, width, height).points
        kept == {k \in DOMAIN nodes : WithinUnit(nodes[k], bbox)}
    IN  /\ Len(points) = Cardinality(kept)
        /\ \A j \in DOMAIN points :
               /\ IntOfScaled(points[j][1], lon(nodes[Kth(kept, j)]) - bbox[2],
                              bbox[4] - bbox[2], width)
               /\ IntOfScaled(points[j][2], lat(nodes[Kth(kept, j)]) - bbox[1],
                              bbox[3] - bbox[1], height)
               /\ points[j][1] >= 0 /\ points[j][1] <= width
               /\ points[j][2] >= 0 /\ points[j][2] <= height

\* C18: _normalizeCoordinate emits, in input order, exactly the nodes whose
\* normalized (lon, lat) position lies within [0, 1] on both axes, each as
\* (int(x * width), int(y * height)); nodes outside are dropped, not clamped,
\* and every emitted pixel lies in [0, width] x [0, height].
C18_NormalizerEmitsInside ==
    (~IsNone(size) /\ ~IsNone(parks)) =>
        LET rings == AllRings
        IN  \A k \in DOMAIN rings :
                EmitsInside(rings[k].nodes, buildings_bbox, size[1], size[2])

\* a ring went through the normalizer that lost some of its nodes and kept
\* others, one of them on the far edge of the image
C18_RingPartlyEmitted ==
    /\ pc = "drawn"
    /\ \E k \in DOMAIN AllRings :
          LET points == NormalizeCoordinate(AllRings[k].nodes, buildings_bbox,
                                            size[1], size[2]).points
          IN  /\ Len(points) > 0 /\ Len(points) < Len(AllRings[k].nodes)
              /\ \E j \in DOMAIN points : points[j][1] = size[1]

\* the calls made for one layer
LayerCalls(name) ==
    LET Of(c) == c.layer = name
    IN  SelectSeq(drawn, Of)

\* the rings of rs with at least 3 usable points after normalization
UsableRings(rs) ==
    {k \in DOMAIN rs :
        Len(NormalizeCoordinate(rs[k].nodes, buildings_bbox, size[1], size[2]).points) >= 3}

\* C12: a ring (outer or inner, of a building or any other feature) with fewer
\* than 3 usable points after normalization is never drawn: every polygon or
\* line drawn has at least 3 points, and each layer holds one call per ring
\* with 3 points or more.
C12_DrawnRingsHaveThreePoints ==
    /\ \A k \in DOMAIN drawn : Len(drawn[k].call.points) >= 3
    /\ pc \in {"create_image", "drawn"} =>
           /\ Len(LayerCalls("parks")) = Cardinality(UsableRings(Rings(Val(parks))))
           /\ Len(LayerCalls("water")) = Cardinality(UsableRings(Rings(Val(water))))
           /\ Len(LayerCalls("roads")) = Cardinality(UsableRings(Rings(Val(roads))))
           /\ Len(LayerCalls("buildings")) = Cardinality(UsableRings(Rings(buildings)))

\* a map was drawn that has a ring left with two points and a ring left with
\* none, next to rings that were drawn
C12_ShortRingsSkipped ==
    /\ pc = "drawn" /\ drawn # <<>>
    /\ \E j, k \in DOMAIN AllRings :
          /\ Len(NormalizeCoordinate(AllRings[k].nodes, buildings_bbox,
                                      size[1], size[2]).points) = 2
          /\ Len(NormalizeCoordinate(AllRings[j].nodes, buildings_bbox,
                                      size[1], size[2]).points) = 0

\* the buildings whose outer ring is drawn, in order
DrawnBuildings ==
    LET usable == UsableRings(OuterRings(buildings))
        Kept(k) == k \in usable
    IN  SelectSeq([k \in DOMAIN buildings |-> k], Kept)

\* the calls of the buildings layer that draw outer rings
OuterBuildingCalls ==
    LET Outer(c) == c.layer = "buildings" /\ ~IsNone(c.call.outline)
    IN  SelectSeq(drawn, Outer)

---------------------------------------------------------------------------
(* Claims on elements without a payload *)

\* the way elements that carry coordinates: all keys and at least one node
UsableWays(resp) ==
    {w \in DOMAIN resp.ways : resp.payload[w] = "full" /\ resp.ways[w] # <<>>}

\* the relations of the response whose usable outer ways stitch to a polyline
StitchedRelations(resp) ==
    LET rels == ExtractRelations(resp)
        Usable(w) == w.way_id \in UsableWays(resp)
    IN  {r \in DOMAIN rels : BuildPolygons(SelectSeq(outer_ways(rels[r]), Usable)) # <<>>}

\* C17: the extractor drops, without raising, every way with no coordinate
\* payload (no geometry or no nodes) and every relation whose outer ways
\* stitch to zero polylines; the remaining elements become features.
C17_PayloadlessDropped ==
    pc \in {"extracted", "ways_extracted", "raised"} =>
        LET resp == Val(response)
        IN  /\ IsNone(raised)
            /\ ~IsNone(features)
            /\ pc = "ways_extracted" =>
                   /\ Len(Val(features)) = Cardinality(UsableWays(resp))
                   /\ \A j \in DOMAIN Val(features) :
                          /\ Val(features)[j].element_id = Kth(UsableWays(resp), j)
                          /\ Val(features)[j].nodes = resp.ways[Kth(UsableWays(resp), j)]
            /\ pc = "extracted" =>
                   /\ Len(Val(features)) = Cardinality(StitchedRelations(resp))
                   /\ \A j \in DOMAIN Val(features) :
                          Val(features)[j].element_id =
                              resp.relations[Kth(StitchedRelations(resp), j)].relation_id

---------------------------------------------------------------------------
(* Claims on the network fetch and the cache *)

\* the run p left a chunk in some cache file
WroteCache(p) ==
    \E f \in CacheFiles : ~IsNone(cache[f]) /\ \E i \in DOMAIN Val(cache[f]) : Val(cache[f])[i][1] = p

\* C16: _requestUrl makes at most max_retries attempts and starts a new one
\* only after the previous one timed out; after max_retries timeouts in a row
\* it raises ApiError, makeRequest then writes nothing to the cache, and the
\* failure leaves load: no frame catches it.
C16_BoundedRetriesThenApiError ==
    /\ [](\A p \in Procs :
            /\ procs[p].attempts <= procs[p].max_retries
            /\ procs[p].exc = Some("ApiError") =>
                   /\ procs[p].attempts = procs[p].max_retries
                   /\ procs[p].timeouts = procs[p].max_retries
                   /\ ~WroteCache(p)
                   /\ procs[p].pc \in {"unwinding", "raised"}
                   /\ procs[p].result = None
            /\ procs[p].pc = "raised" => procs[p].stack = <<>>)
    /\ [][\A p \in Procs :
            /\ (procs'[p].attempts # procs[p].attempts) =>
                   /\ procs'[p].attempts = procs[p].attempts + 1
                   /\ procs[p].attempts > 0 => procs[p].last = Some("Timeout")
            /\ procs[p].exc = Some("ApiError") =>
                   /\ procs'[p].exc = Some("ApiError")
                   /\ procs'[p] # procs[p] =>
                          /\ Len(procs'[p].stack) = Len(procs[p].stack) - 1
                          /\ cache' = cache]_vars

\* a run used up a budget of several attempts, all timed out, and its
\* ApiError left load, the cache folder still without a file for the URL
C16_RetriesExhausted ==
    \E p \in Procs :
        /\ procs[p].pc = "raised" /\ procs[p].exc = Some("ApiError")
        /\ procs[p].max_retries = DefaultMaxRetries
        /\ procs[p].timeouts = DefaultMaxRetries
        /\ IsNone(cache[CacheFile(Val(procs[p].url))])

\* C15: when two runs call makeRequest for the same URL concurrently, no
\* reader of the cache entry observes a corrupted one: every _loadCache that
\* finds the file reads a complete entry written by one _saveCache, never an
\* empty or partly written one.
C15_NoCorruptedRead ==
    \A p \in Procs :
        /\ procs[p].exc # Some("JSONDecodeError")
        /\ ~IsNone(procs[p].result) => Complete(Val(procs[p].result))

---------------------------------------------------------------------------
(* Claims on the order and the steps of a coloring attempt *)

\* the number of neighbors of the building at position k
NeighborCount(bs, k) == Cardinality(Val(bs[k].neighbors))

\* C21: in every coloring attempt the buildings are visited in order of
\* non-increasing neighbor-set size: no building is visited before one that
\* has strictly more neighbors.
C21_MostConstrainedFirst ==
    pc = "attempt" =>
        \A j, k \in 1..(pos - 1) :
            j < k => NeighborCount(buildings, j) >= NeighborCount(buildings, k)

\* the colors of the neighbors of the building at position k that have one
NeighborColors(bs, k) ==
    {Val(bs[n].color_id) : n \in {m \in Val(bs[k].neighbors) : ~IsNone(bs[m].color_id)}}

\* C22: within one coloring attempt all colors are unset at the start; a
\* visited building receives a palette index used by none of its neighbors
\* colored earlier in the attempt or, when there is none, stays uncolored and
\* the failure counter grows by one; at the end of the attempt the counter is
\* the number of uncolored buildings.
C22_AttemptStepsAndFails ==
    /\ [](pc = "attempt" =>
            /\ \A k \in DOMAIN buildings : k >= pos => IsNone(buildings[k].color_id)
            /\ fails = Cardinality({k \in DOMAIN buildings :
                                       k < pos /\ IsNone(buildings[k].color_id)}))
    /\ [][(pc = "attempt" /\ pos' = pos + 1) =>
            /\ \A k \in DOMAIN buildings : k # pos => buildings'[k] = buildings[k]
            /\ IF IsNone(buildings'[pos].color_id)
               THEN /\ fails' = fails + 1
                    /\ NeighborColors(buildings, pos) = 0..(PaletteLength - 1)
               ELSE /\ fails' = fails
                    /\ Val(buildings'[pos].color_id) \in 0..(PaletteLength - 1)
                    /\ Val(buildings'[pos].color_id) \notin NeighborColors(buildings, pos)
                    /\ buildings'[pos].outline_color_id = buildings'[pos].color_id]_vars

\* an attempt ended in which a building found every palette index taken by
\* its neighbors, after others got their colors
C22_AttemptWithFailure ==
    /\ pc = "attempt" /\ pos = Len(buildings) + 1
    /\ fails > 0
    /\ \E k \in DOMAIN buildings : ~IsNone(buildings[k].color_id)

---------------------------------------------------------------------------
(* Claim on the definition of adjacency *)

\* the three tests of the pair (a, b): centers closer than the per-axis delta
\* (max_dist scaled by bounding-box side over 2 * radius; centers are doubled),
\* bounding boxes overlapping, and 2 node ids or more in common
PairTests(a, b) ==
    /\ Abs(a.center[1] - b.center[1]) * radius < (buildings_bbox[3] - buildings_bbox[1]) * MaxDist
    /\ Abs(a.center[2] - b.center[2]) * radius < (buildings_bbox[4] - buildings_bbox[2]) * MaxDist
    /\ a.boundingbox[1] <= b.boundingbox[3] /\ b.boundingbox[1] <= a.boundingbox[3]
    /\ a.boundingbox[2] <= b.boundingbox[4] /\ b.boundingbox[2] <= a.boundingbox[4]
    /\ Cardinality({n \in Range(a.nodes) : n \in Range(b.nodes)}) >= 2

\* C23: after _assignNeighbors, for any two different buildings A and B, B is
\* in A.neighbors exactly when their centers differ by less than the delta on
\* both axes, their bounding boxes overlap and their outer rings share at
\* least 2 distinct node ids.
C23_NeighborsExactlyPairTests ==
    pc = "neighbors_done" =>
        \A a, b \in DOMAIN buildings :
            a # b => ((b \in Neighbors(a)) <=> PairTests(buildings[a], buildings[b]))

---------------------------------------------------------------------------
(* Claim on the four cases of the stitcher *)

\* the polylines the four endpoint cases prescribe for the accumulator acc and
\* the new way new, one for each case that matches
Prescribed(acc, new) ==
    {q \in {Reverse(new) \o acc} : new[1] = acc[1]}
    \cup {q \in {acc \o new} : new[1] = acc[Len(acc)]}
    \cup {q \in {new \o acc} : new[Len(new)] = acc[1]}
    \cup {q \in {acc \o Reverse(new)} : new[Len(new)] = acc[Len(acc)]}

\* s holds t as a run of consecutive elements starting at position i
RunAt(s, t, i) == i + Len(t) - 1 <= Len(s) /\ SubSeq(s, i, i + Len(t) - 1) = t

\* in q the accumulator keeps its order, the new way is a run forward or
\* reversed beside it, and the node the two meet at stands twice at the seam
Joined(q, acc, new) ==
    /\ Len(q) = Len(acc) + Len(new)
    /\ \/ /\ RunAt(q, acc, 1)
          /\ RunAt(q, new, Len(acc) + 1) \/ RunAt(q, Reverse(new), Len(acc) + 1)
          /\ q[Len(acc)] = q[Len(acc) + 1]
       \/ /\ RunAt(q, acc, Len(new) + 1)
          /\ RunAt(q, new, 1) \/ RunAt(q, Reverse(new), 1)
          /\ q[Len(new)] = q[Len(new) + 1]

\* what _buildPolygons returns for the first k ways
StitchedUpTo(k) == BuildPolygons(SubSeq(ways, 1, k))

\* C24: when the incoming way matches the accumulated polyline in one of the
\* four endpoint cases, the accumulator becomes the polyline that case
\* prescribes: the matched endpoints adjacent, the accumulator's nodes in
\* their order, the new way's nodes in one run, forward or reversed; when no
\* case matches, the accumulator is flushed unchanged and the new way starts
\* the next one.
C24_FourCasesOrFlush ==
    \A k \in 1..(Len(ways) - 1) :
        LET before == StitchedUpTo(k)
            after == StitchedUpTo(k + 1)
            acc == before[Len(before)]
            new == ways[k + 1].nodes
        IN  IF Prescribed(acc, new) # {}
            THEN /\ Len(after) = Len(before)
                 /\ SubSeq(after, 1, Len(before) - 1) = SubSeq(before, 1, Len(before) - 1)
                 /\ after[Len(after)] \in Prescribed(acc, new)
                 /\ Joined(after[Len(after)], acc, new)
            ELSE after = Append(before, new)

\* a list was stitched in which one way met the accumulator's last node with
\* its own last node and another way met neither end
C24_ReversedAppendAndFlush ==
    /\ pc = "stitched"
    /\ \E j, k \in 1..(Len(ways) - 1) :
          LET accj == StitchedUpTo(j)[Len(StitchedUpTo(j))]
              acck == StitchedUpTo(k)[Len(StitchedUpTo(k))]
          IN  /\ Prescribed(accj, ways[j + 1].nodes) = {accj \o Reverse(ways[j + 1].nodes)}
              /\ Prescribed(acck, ways[k + 1].nodes) = {}

---------------------------------------------------------------------------
(* Claim on the cache of makeRequest *)

\* the writer of a complete entry
WriterOf(entry) == entry[1][1]

\* C25: makeRequest keys the cache by a deterministic hash of the URL and
\* returns the cached entry, with no network request, exactly when a
\* (complete) entry exists for that key and expiry is disabled or the entry is
\* younger than cached_age; otherwise it performs the request and overwrites
\* the entry, so that a later identical call with expiry disabled is served
\* the same response with no further request.
C25_CacheKeyedByUrl ==
    /\ [](\A p \in Procs :
            /\ (procs[p].pc = "done" /\ procs[p].attempts = 0) =>
                   /\ Complete(Val(procs[p].result))
                   /\ procs[p].cache_expire => procs[p].fresh = Some(TRUE)
                   /\ WriterOf(Val(procs[p].result)) \in Procs =>
                          /\ procs[WriterOf(Val(procs[p].result))].url = procs[p].url
                          /\ procs[WriterOf(Val(procs[p].result))].result = procs[p].result
            /\ (procs[p].pc = "done" /\ procs[p].attempts > 0) =>
                   /\ procs[p].result = Some(Entry(p, procs[p].size))
                   /\ ~IsNone(cache[CacheFile(Val(procs[p].url))])
            /\ procs[p].attempts > 0 =>
                   \/ IsNone(procs[p].fresh)
                   \/ procs[p].cache_expire /\ procs[p].fresh = Some(FALSE))
    /\ [][\A p \in Procs :
            LET file == cache[CacheFile(Val(procs[p].url))]
            IN  /\ (procs[p].pc = "load_cache" /\ procs'[p] # procs[p]) =>
                       (procs'[p].pc = "request" <=> IsNone(file))
                /\ (procs[p].pc = "read_cache" /\ procs'[p] # procs[p] /\ Complete(Val(file))) =>
                       IF ~procs[p].cache_expire \/ procs'[p].fresh = Some(TRUE)
                       THEN /\ procs'[p].pc = "done" /\ procs'[p].attempts = 0
                            /\ procs'[p].result = file /\ cache' = cache
                       ELSE procs'[p].pc = "request"
                /\ (procs[p].pc = "save_cache" /\ procs'[p] # procs[p]) =>
                       cache'[CacheFile(Val(procs[p].url))] = Some(<<>>)]_vars

\* a run fetched a response and stored it; the other run then asked for the
\* same URL with expiry disabled and was served that entry with no request,
\* while the file of the other URL holds what an earlier run left
C25_SecondCallServedFromCache ==
    \E p, q \in Procs :
        /\ p # q
        /\ procs[p].pc = "done" /\ procs[p].attempts > 0
        /\ procs[q].pc = "done" /\ procs[q].attempts = 0 /\ ~procs[q].cache_expire
        /\ procs[q].url = procs[p].url
        /\ procs[q].result = Some(Entry(p, procs[p].size))
        /\ \E f \in CacheFiles : cache[f] = Some(Entry(0, 1))

---------------------------------------------------------------------------
(* Claim on responses with a status code other than 200 *)

---------------------------------------------------------------------------
(* Claim on features whose outer ring is degenerate *)

\* the rings of the features es that are to be drawn when a feature with a
\* degenerate outer ring is dropped as a whole: the rings with 3 usable points
\* or more of the features whose outer ring has 3 usable points or more
RingsOfKeptFeatures(es) ==
    LET rs == Rings(es)
        usable == UsableRings(rs)
    IN  {r \in usable : rs[r].of \in {rs[o].of : o \in {u \in usable : ~rs[u].inner}}}

\* C26: a feature whose outer ring has fewer than 3 usable points after
\* normalization is dropped from its layer as a whole, neither its outer ring
\* nor any of its inner rings being drawn, and drawing goes on with the
\* remaining features.
C26_DegenerateFeatureDroppedWhole ==
    pc \in {"create_image", "drawn"} =>
        /\ Len(LayerCalls("parks")) = Cardinality(RingsOfKeptFeatures(Val(parks)))
        /\ Len(LayerCalls("water")) = Cardinality(RingsOfKeptFeatures(Val(water)))
        /\ Len(LayerCalls("roads")) = Cardinality(RingsOfKeptFeatures(Val(roads)))
        /\ Len(LayerCalls("buildings")) = Cardinality(RingsOfKeptFeatures(buildings))


---------------------------------------------------------------------------
(* C27: what each pass may change of a building *)

Geometry(b) == <<b.nodes, b.inner_nodes, b.boundingbox, b.center>>

Colors(b) == <<b.color_id, b.outline_color_id>>

ColoringPass == {"colors", "attempt", "colors_return"}

DrawingPass == {"loaded", "draw_water", "draw_roads", "draw_buildings", "create_image"}

\* C27: once the buildings are constructed, the nodes, inner rings, bounding
\* box and center of every building stay those of the element it was built
\* from, through load and draw; a step of the adjacency pass changes only
\* neighbors, a step of the coloring pass changes only color_id and
\* outline_color_id, and a step of drawing changes no field of any building
C27_GeometryFixedAtConstruction ==
    /\ [](buildings # <<>> =>
             /\ Len(buildings) = Len(osm.buildings)
             /\ \A k \in DOMAIN buildings :
                    Geometry(buildings[k]) = Geometry(osm.buildings[k]))
    /\ [][buildings # <<>> =>
             /\ DOMAIN buildings' = DOMAIN buildings
             /\ \A k \in DOMAIN buildings :
                    /\ Geometry(buildings'[k]) = Geometry(buildings[k])
                    /\ pc = "neighbors" => Colors(buildings'[k]) = Colors(buildings[k])
                    /\ pc \in ColoringPass =>
                           buildings'[k].neighbors = buildings[k].neighbors
                    /\ pc \in DrawingPass => buildings'[k] = buildings[k]]_vars

\* drawn, after the adjacency pass found neighbors and the coloring pass set colors
C27_DrawnAfterBothPasses ==
    /\ pc = "drawn"
    /\ \E k \in DOMAIN buildings :
           /\ ~IsNone(buildings[k].neighbors)
           /\ Val(buildings[k].neighbors) # {}
           /\ ~IsNone(buildings[k].color_id)
           /\ buildings[k].inner_nodes = <<>>
    /\ \E k \in DOMAIN buildings : Len(buildings[k].nodes) >= 4

---------------------------------------------------------------------------
(* C29: the partition of a relation's ways follows its own member entries *)

\* the refs of the kept member entries whose role is, or is not, "inner"
MemberRefs(members, inner) ==
    LET ms == KeptMembers(members)
        Pick(m) == (m.role = "inner") = inner
        picked == SelectSeq(ms, Pick)
    IN  [k \in DOMAIN picked |-> picked[k].ref]

WayIds(ws) == [k \in DOMAIN ws |-> ws[k].way_id]

\* C29: for every relation extracted from a response, the inner ways are the
\* ways of its own member entries of role "inner" and the outer ways those of
\* its own member entries of any other role but "part", also when a way is a
\* member of several relations with different roles
C29_PartitionFollowsOwnMembers ==
    pc = "extracted" =>
        LET rels == ExtractRelations(Val(response))
        IN  \A r \in DOMAIN rels :
                /\ WayIds(inner_ways(rels[r])) = MemberRefs(Val(response).relations[r].members, TRUE)
                /\ WayIds(outer_ways(rels[r])) = MemberRefs(Val(response).relations[r].members, FALSE)

---------------------------------------------------------------------------
(* C30: one feature per relation, its outer ring the first outer polyline *)

\* the positions in fs of the features built from the relation of this id
FeaturesFrom(fs, id) == {k \in DOMAIN fs : fs[k].element_id = id}

\* C30: each relation yields at most one feature, and none without an outer
\* polyline; the feature's outer ring is the first polyline the stitcher
\* returns for the relation's outer ways, whatever polylines follow it, and
\* its inner rings are all the polylines stitched from the inner ways
C30_FirstOuterPolylineAllInner ==
    pc = "extracted" =>
        LET rels == ExtractRelations(Val(response))
            fs == Val(features)
        IN  /\ Len(fs) <= Len(rels)
            /\ \A r \in DOMAIN rels :
                   LET outer == BuildPolygons(outer_ways(rels[r]))
                       inner == BuildPolygons(inner_ways(rels[r]))
                       from == FeaturesFrom(fs, rels[r].relation_id)
                   IN  /\ Cardinality(from) = IF outer = <<>> THEN 0 ELSE 1
                       /\ \A k \in from :
                              /\ fs[k].nodes = outer[1]
                              /\ fs[k].inner_nodes = inner

\* a relation whose outer ways stitch to two polylines, after its feature
\* was built
C30_TwoOuterPolylines ==
    /\ pc = "extracted"
    /\ \E r \in DOMAIN ExtractRelations(Val(response)) :
           /\ Len(BuildPolygons(outer_ways(ExtractRelations(Val(response))[r]))) >= 2
           /\ Len(Val(features)) >= 1
============================================================================
